---- MODULE Spec2Model ----
(***************************************************************************)
(* Model of the embedded vector store of recipe_optim:                     *)
(*   src/src/search/nano_vector_db.rs  (NanoVectorDB, normalize, query)    *)
(*   src/src/search/ann_engine.rs      (AnnEngine, the wrapper around it)  *)
(* The store keeps an entry list (storage.data) and a dense matrix         *)
(* (storage.matrix); it is persisted to one file by save() and read back   *)
(* by NanoVectorDB::new.                                                   *)
(*                                                                         *)
(* Float (f32) is modelled as a fixed-point number: the integer n stands   *)
(* for n / Scale, and every arithmetic operation rounds its result to the  *)
(* nearest representable value, as every f32 operation does.               *)
(***************************************************************************)
EXTENDS Integers, Sequences, FiniteSets, TLC

\* ---------------------------------------------------------------- bounds
\* embedding_dim requested by every NanoVectorDB::new of the model
Dim == 2
\* the largest number of entries a store is grown to
MaxLen == 2
\* the largest number of items in one upsert batch
MaxBatch == 2
\* the largest top_k a query asks for
MaxK == 2

\* the most HTTP requests sent
MaxRequests == 2

\* the greatest max_iterations given to optimize_recipe
MaxIterations == 3

\* one unit of the fixed-point Float: Scale stands for 1.0
Scale == 1000

VARIABLES
    live,      \* whether a NanoVectorDB exists (FALSE once new has failed or a call has panicked)
    storage,   \* NanoVectorDB.storage (a DataBase), meaningful while live
    file,      \* storage_file: whether it exists, whether it is zero-length, what it holds
    last,      \* the last call made: its name, its argument and what it returned
    environ,   \* the process environment: for each variable name, what env::var finds
    dotenv,    \* the names the .env file of the working directory defines
    http,      \* the number of HTTP requests built and sent so far
    opt,       \* the locals of the running optimize_recipe call and its result
    pc,        \* where a mutation of the store observed write by write stands
    pending,   \* the locals of that mutation
    binary_heap, \* a BinaryHeap of ScoredIndex, as the ordering test builds it
    popped     \* what the last pop() of that heap returned, what into_sorted_vec gave

\* the store, its file and the last call
storeVars == <<live, storage, file, last>>

\* what the actions on the store leave alone
others == <<environ, dotenv, http, opt, pc, pending, binary_heap, popped>>

vars == <<live, storage, file, last, environ, dotenv, http, opt, pc, pending, binary_heap, popped>>

\* storage_file before anything was saved to it
NoFile ==
    [exists |-> FALSE, empty |-> TRUE, torn |-> FALSE,
     content |-> [embedding_dim |-> 0, data |-> <<>>, matrix |-> <<>>,
                  additional_data |-> <<>>]]

\* ------------------------------------------------------------ Float (f32)
\* n / d rounded to the nearest integer (halves away from zero), d > 0
Round(n, d) ==
    IF n >= 0 THEN (2 * n + d) \div (2 * d)
    ELSE -((2 * (-n) + d) \div (2 * d))

\* Float::NAN: a value outside the range of the numbers of the model
NaN == 2147483647

\* Float::is_nan
is_nan(x) == x = NaN

\* every operation on a NaN gives NaN
FMul(a, b) == IF is_nan(a) \/ is_nan(b) THEN NaN ELSE Round(a * b, Scale)

FAdd(a, b) == IF is_nan(a) \/ is_nan(b) THEN NaN ELSE a + b

FDiv(a, b) == IF is_nan(a) \/ is_nan(b) THEN NaN ELSE Round(a * Scale, b)

\* a >= b on Float: false when either is NaN
FGe(a, b) == ~is_nan(a) /\ ~is_nan(b) /\ a >= b

RECURSIVE SqrtFloor(_, _, _)
\* the largest r in lo..hi with r * r <= n (bisection)
SqrtFloor(n, lo, hi) ==
    IF lo >= hi THEN lo
    ELSE LET mid == (lo + hi + 1) \div 2
         IN  IF mid * mid <= n THEN SqrtFloor(n, mid, hi)
             ELSE SqrtFloor(n, lo, mid - 1)

\* Float::sqrt, correctly rounded
FSqrt(a) ==
    LET n == a * Scale
        r == SqrtFloor(n, 0, 46340)
    IN  IF is_nan(a) THEN NaN
        ELSE IF n - r * r > r THEN r + 1 ELSE r

RECURSIVE SumSeq(_, _)
\* Iterator::sum over a sequence of Float, left to right
SumSeq(s, acc) ==
    IF s = <<>> THEN acc ELSE SumSeq(Tail(s), FAdd(acc, Head(s)))

Min(a, b) == IF a <= b THEN a ELSE b

\* normalize(vector): unit L2 length, the zero vector staying zero
normalize(vector) ==
    LET norm_sq == SumSeq([i \in 1..Len(vector) |-> FMul(vector[i], vector[i])], 0)
    IN  IF norm_sq = 0 THEN [i \in 1..Len(vector) |-> 0]
        ELSE LET inv_norm == FDiv(Scale, FSqrt(norm_sq))
             IN  [i \in 1..Len(vector) |-> FMul(vector[i], inv_norm)]

\* simple_dot_product(vec1, vec2): zip stops at the shorter vector
simple_dot_product(vec1, vec2) ==
    SumSeq([i \in 1..Min(Len(vec1), Len(vec2)) |-> FMul(vec1[i], vec2[i])], 0)

\* ------------------------------------------------------- persistence codec
\* Float::to_le_bytes / bytemuck::cast_slice: the four little-endian bytes of a
\* Float (the 32-bit two's complement image of the fixed-point value)
ToLeBytes(x) ==
    LET u == IF x >= 0 THEN x ELSE x + 16777216
    IN  IF is_nan(x) THEN <<255, 255, 255, 127>>
        ELSE <<u % 256, (u \div 256) % 256, (u \div 65536) % 256,
               IF x < 0 THEN 255 ELSE 0>>

\* Float::from_le_bytes
FromLeBytes(b) ==
    LET u == b[1] + 256 * b[2] + 65536 * b[3]
    IN  IF b[4] = 127 THEN NaN
        ELSE IF b[4] >= 128 THEN u - 16777216 ELSE u

RECURSIVE CastSlice(_)
\* cast_slice(vec): the bytes of the whole matrix
CastSlice(vec) ==
    IF vec = <<>> THEN <<>> ELSE ToLeBytes(Head(vec)) \o CastSlice(Tail(vec))

\* the base64 padding character; the other characters are the sextets 0..63
Pad == 64

RECURSIVE B64Encode(_)
\* general_purpose::STANDARD.encode(bytes)
B64Encode(bytes) ==
    IF Len(bytes) = 0 THEN <<>>
    ELSE IF Len(bytes) = 1 THEN
        <<bytes[1] \div 4, (bytes[1] % 4) * 16, Pad, Pad>>
    ELSE IF Len(bytes) = 2 THEN
        <<bytes[1] \div 4, (bytes[1] % 4) * 16 + bytes[2] \div 16,
          (bytes[2] % 16) * 4, Pad>>
    ELSE
        <<bytes[1] \div 4, (bytes[1] % 4) * 16 + bytes[2] \div 16,
          (bytes[2] % 16) * 4 + bytes[3] \div 64, bytes[3] % 64>>
        \o B64Encode(SubSeq(bytes, 4, Len(bytes)))

RECURSIVE B64Decode(_)
\* general_purpose::STANDARD.decode(s), on a well-formed text
B64Decode(s) ==
    IF Len(s) < 4 THEN <<>>
    ELSE LET b1 == s[1] * 4 + s[2] \div 16
             b2 == (s[2] % 16) * 16 + s[3] \div 4
             b3 == (s[3] % 4) * 64 + s[4]
         IN  IF s[3] = Pad THEN <<b1>>
             ELSE IF s[4] = Pad THEN <<b1, (s[2] % 16) * 16 + s[3] \div 4>>
             ELSE <<b1, b2, b3>> \o B64Decode(SubSeq(s, 5, Len(s)))

RECURSIVE ChunksExact4(_)
\* bytes.chunks_exact(4).map(from_le_bytes): a trailing partial chunk is dropped
ChunksExact4(bytes) ==
    IF Len(bytes) < 4 THEN <<>>
    ELSE <<FromLeBytes(SubSeq(bytes, 1, 4))>> \o ChunksExact4(SubSeq(bytes, 5, Len(bytes)))

\* base64_bytes::serialize
base64_serialize(vec) == B64Encode(CastSlice(vec))

\* base64_bytes::deserialize
base64_deserialize(s) == ChunksExact4(B64Decode(s))

\* the key under which Data.id is written
F_ID == "__id__"

\* Serialize for Data: the id under "__id__", the fields flattened beside it,
\* the vector skipped
SerializeData(d) == [id_entry |-> <<F_ID, d.id>>, flat |-> d.fields]

\* Serialize for DataBase, as save() writes it: an empty additional_data is
\* skipped (here: <<>>), any other is written (here: <<map>>)
SerializeDataBase(db) ==
    [embedding_dim |-> db.embedding_dim,
     data |-> [i \in 1..Len(db.data) |-> SerializeData(db.data[i])],
     matrix |-> base64_serialize(db.matrix),
     additional_data |-> IF db.additional_data = {} THEN <<>>
                         ELSE <<db.additional_data>>]

\* Deserialize for Data: a second "__id__" key among the flattened fields is a
\* duplicate field; the skipped vector is Vec::default()
DataParses(j) == \A p \in j.flat : p[1] # F_ID

DeserializeData(j) == [id |-> j.id_entry[2], vector |-> <<>>, fields |-> j.flat]

\* Deserialize for DataBase (serde_json::from_str on the file's content): a
\* missing additional_data is the default, the empty map
DeserializeDataBase(f) ==
    [embedding_dim |-> f.embedding_dim,
     data |-> [i \in 1..Len(f.data) |-> DeserializeData(f.data[i])],
     matrix |-> base64_deserialize(f.matrix),
     additional_data |-> IF f.additional_data = <<>> THEN {}
                         ELSE f.additional_data[1]]

\* ------------------------------------------------------------ NanoVectorDB
\* the DataBase a store starts with when there is nothing to load
EmptyDataBase(embedding_dim) ==
    [embedding_dim |-> embedding_dim, data |-> <<>>, matrix |-> <<>>,
     additional_data |-> {}]

\* an anyhow error: its message, the id and the numbers the message names
Err(msg, id, n1, n2) == [msg |-> msg, id |-> id, n1 |-> n1, n2 |-> n2]

NoErr == Err("", "", 0, 0)

\* new with the two checks made in the other order: the matrix length first
NanoVectorDB_new_MatrixFirst(embedding_dim, f) ==
    IF f.exists /\ ~f.empty /\ f.torn
    THEN [kind |-> "err", db |-> EmptyDataBase(embedding_dim),
          err |-> Err("EOF while parsing", "", 0, 0)]
    ELSE IF f.exists /\ ~f.empty THEN
        LET db == DeserializeDataBase(f.content)
            expected_len == Len(db.data) * db.embedding_dim
        IN  IF Len(db.matrix) # expected_len
            THEN [kind |-> "err", db |-> EmptyDataBase(embedding_dim),
                  err |-> Err("Matrix size mismatch", "", expected_len, Len(db.matrix))]
            ELSE IF db.embedding_dim # embedding_dim
            THEN [kind |-> "err", db |-> EmptyDataBase(embedding_dim),
                  err |-> Err("Embedding dimension mismatch", "",
                              db.embedding_dim, embedding_dim)]
            ELSE [kind |-> "ok", db |-> db, err |-> NoErr]
    ELSE [kind |-> "ok", db |-> EmptyDataBase(embedding_dim), err |-> NoErr]

\* new without the check of the matrix length
NanoVectorDB_new_NoMatrixCheck(embedding_dim, f) ==
    IF f.exists /\ ~f.empty /\ f.torn
    THEN [kind |-> "err", db |-> EmptyDataBase(embedding_dim),
          err |-> Err("EOF while parsing", "", 0, 0)]
    ELSE IF f.exists /\ ~f.empty THEN
        LET db == DeserializeDataBase(f.content)
        IN  IF db.embedding_dim # embedding_dim
            THEN [kind |-> "err", db |-> EmptyDataBase(embedding_dim),
                  err |-> Err("Embedding dimension mismatch", "",
                              db.embedding_dim, embedding_dim)]
            ELSE [kind |-> "ok", db |-> db, err |-> NoErr]
    ELSE [kind |-> "ok", db |-> EmptyDataBase(embedding_dim), err |-> NoErr]

\* new without the test of the file's length: a zero-length file is parsed
NanoVectorDB_new_NoLenCheck(embedding_dim, f) ==
    IF f.exists THEN
        IF f.empty
        THEN [kind |-> "err", db |-> EmptyDataBase(embedding_dim),
              err |-> Err("EOF while parsing a value", "", 0, 0)]
        ELSE LET db == DeserializeDataBase(f.content)
                 expected_len == Len(db.data) * db.embedding_dim
             IN  IF db.embedding_dim # embedding_dim
                 THEN [kind |-> "err", db |-> EmptyDataBase(embedding_dim),
                       err |-> Err("Embedding dimension mismatch", "",
                                   db.embedding_dim, embedding_dim)]
                 ELSE IF Len(db.matrix) # expected_len
                 THEN [kind |-> "err", db |-> EmptyDataBase(embedding_dim),
                       err |-> Err("Matrix size mismatch", "",
                                   expected_len, Len(db.matrix))]
                 ELSE [kind |-> "ok", db |-> db, err |-> NoErr]
    ELSE [kind |-> "ok", db |-> EmptyDataBase(embedding_dim), err |-> NoErr]

\* NanoVectorDB::new(embedding_dim, storage_file) on a file holding f: the
\* store (when kind is "ok") or the error
NanoVectorDB_new(embedding_dim, f) ==
    IF f.exists /\ ~f.empty /\ f.torn
    THEN [kind |-> "err", db |-> EmptyDataBase(embedding_dim),
          err |-> Err("EOF while parsing", "", 0, 0)]
    ELSE IF f.exists /\ ~f.empty THEN
        IF \E i \in 1..Len(f.content.data) : ~DataParses(f.content.data[i])
        THEN [kind |-> "err", db |-> EmptyDataBase(embedding_dim),
              err |-> Err("duplicate field", F_ID, 0, 0)]
        ELSE LET db == DeserializeDataBase(f.content)
                 expected_len == Len(db.data) * db.embedding_dim
             IN  IF db.embedding_dim # embedding_dim
                 THEN [kind |-> "err", db |-> EmptyDataBase(embedding_dim),
                       err |-> Err("Embedding dimension mismatch", "",
                                   db.embedding_dim, embedding_dim)]
                 ELSE IF Len(db.matrix) # expected_len
                 THEN [kind |-> "err", db |-> EmptyDataBase(embedding_dim),
                       err |-> Err("Matrix size mismatch", "",
                                   expected_len, Len(db.matrix))]
                 ELSE [kind |-> "ok", db |-> db, err |-> NoErr]
    ELSE [kind |-> "ok", db |-> EmptyDataBase(embedding_dim), err |-> NoErr]

\* existing_ids_map.get(id): the position (from 1) the map built at the start of
\* upsert holds for id, 0 for none; collecting into the map keeps the last entry
\* of an id
ExistingPos(data, id) ==
    LET S == {i \in 1..Len(data) : data[i].id = id}
    IN  IF S = {} THEN 0 ELSE CHOOSE i \in S : \A j \in S : j <= i

RECURSIVE UpsertUpdates(_, _, _, _)
\* the first loop of upsert: items whose id is in existing_ids_map overwrite the
\* matrix slice and the fields in place, the others are set aside
UpsertUpdates(st, datas, old_data, embedding_dim) ==
    IF datas = <<>> \/ st.panicked THEN st
    ELSE LET data_item == Head(datas)
             pos == ExistingPos(old_data, data_item.id)
         IN  IF pos # 0 THEN
                 LET norm_vec == normalize(data_item.vector)
                     start == (pos - 1) * embedding_dim
                     end == start + embedding_dim
                 IN  IF end <= Len(st.matrix) THEN
                         IF Len(norm_vec) # embedding_dim
                         THEN [st EXCEPT !.panicked = TRUE]
                         ELSE UpsertUpdates(
                                [st EXCEPT
                                   !.matrix = [i \in 1..Len(st.matrix) |->
                                                 IF start < i /\ i <= end
                                                 THEN norm_vec[i - start]
                                                 ELSE st.matrix[i]],
                                   !.data[pos].fields = data_item.fields,
                                   !.updates = Append(@, data_item.id)],
                                Tail(datas), old_data, embedding_dim)
                     ELSE UpsertUpdates(st, Tail(datas), old_data, embedding_dim)
             ELSE UpsertUpdates([st EXCEPT !.new_data_to_add = Append(@, data_item)],
                                Tail(datas), old_data, embedding_dim)

RECURSIVE UpsertInserts(_, _)
\* the second loop of upsert: every item set aside is appended
UpsertInserts(st, items) ==
    IF items = <<>> THEN st
    ELSE LET data_item == Head(items)
             norm_vec == normalize(data_item.vector)
         IN  UpsertInserts(
               [st EXCEPT
                  !.matrix = @ \o norm_vec,
                  !.data = Append(@, [id |-> data_item.id, vector |-> norm_vec,
                                      fields |-> data_item.fields]),
                  !.inserts = Append(@, data_item.id)],
               Tail(items))

\* upsert(datas): the store afterwards and (updates, inserts), or a panic
upsert(db, datas, embedding_dim) ==
    LET st0 == [matrix |-> db.matrix, data |-> db.data, updates |-> <<>>,
                inserts |-> <<>>, new_data_to_add |-> <<>>, panicked |-> FALSE]
        st1 == UpsertUpdates(st0, datas, db.data, embedding_dim)
        st2 == UpsertInserts(st1, st1.new_data_to_add)
    IN  IF st1.panicked
        THEN [kind |-> "panic", db |-> db, updates |-> <<>>, inserts |-> <<>>]
        ELSE [kind |-> "ok",
              db |-> [db EXCEPT !.matrix = st2.matrix, !.data = st2.data],
              updates |-> st2.updates, inserts |-> st2.inserts]

RECURSIVE Concat(_)
Concat(ss) == IF ss = <<>> THEN <<>> ELSE Head(ss) \o Concat(Tail(ss))

\* delete(ids_to_delete): the store afterwards and deleted_count
delete(db, ids_to_delete) ==
    LET Keep(d) == d.id \notin ids_to_delete
        new_data == SelectSeq(db.data, Keep)
        new_matrix == Concat([i \in 1..Len(new_data) |-> new_data[i].vector])
    IN  [db |-> [db EXCEPT !.data = new_data, !.matrix = new_matrix],
         deleted_count |-> Len(db.data) - Len(new_data)]

\* save(): the file afterwards
save(db) ==
    [exists |-> TRUE, empty |-> FALSE, torn |-> FALSE, content |-> SerializeDataBase(db)]

\* what fs::write can do: write the whole text; fail to open the file, which
\* is left as it was; fail after the file was opened and truncated, before
\* the first byte or after some of the text
IoOutcomes == {"ok", "open_failed", "write_failed_empty", "write_failed_partial"}

\* fs::write(path, serialized) under an outcome, written being the file a
\* whole write leaves: the file afterwards, and whether Ok
fs_write(written, f, io) ==
    IF io = "ok" THEN [kind |-> "ok", file |-> written]
    ELSE IF io = "open_failed" THEN [kind |-> "err", file |-> f]
    ELSE IF io = "write_failed_empty"
    THEN [kind |-> "err", file |-> [NoFile EXCEPT !.exists = TRUE]]
    ELSE [kind |-> "err", file |-> [written EXCEPT !.torn = TRUE]]

\* save() under an outcome of its fs::write
save_io(db, f, io) == fs_write(save(db), f, io)

\* get looking the requested ids up one by one: the entries come in the order
\* and with the repetitions of the request
get_RequestOrder(db, ids) ==
    Concat([j \in 1..Len(ids) |->
              LET Asked(d) == d.id = ids[j] IN SelectSeq(db.data, Asked)])

\* get(ids): ids is a slice, collected into id_set
get(db, ids) ==
    LET id_set == {ids[i] : i \in 1..Len(ids)}
        Asked(d) == d.id \in id_set
    IN  SelectSeq(db.data, Asked)

\* len()
len(db) == Len(db.data)

\* ------------------------------------------------------------------- query
\* the key under which a result carries its score
F_METRICS == "__metrics__"

\* better_than = None
NoFloor == [some |-> FALSE, value |-> 0]

\* better_than = Some(x)
Floor(x) == [some |-> TRUE, value |-> x]

\* better_than.unwrap_or(-1.0)
Threshold(better_than) == IF better_than.some THEN better_than.value ELSE -Scale

\* filter = None
NoFilter == [some |-> FALSE, ids |-> {}]

\* filter = Some(f), f being the predicate that accepts the entries whose id
\* is in ids
Filter(ids) == [some |-> TRUE, ids |-> ids]

\* filter.as_ref().map_or(true, |f| f(data_item_ref))
Passes(filter, data_item) == ~filter.some \/ data_item.id \in filter.ids

\* Ord for ScoredIndex: other.score.partial_cmp(&self.score), a min-heap on score
cmp(self, other) ==
    IF ~is_nan(self.score) /\ ~is_nan(other.score) THEN
        IF other.score < self.score THEN "Less"
        ELSE IF other.score > self.score THEN "Greater"
        ELSE "Equal"
    ELSE IF is_nan(self.score) /\ ~is_nan(other.score) THEN "Less"
    ELSE IF ~is_nan(self.score) /\ is_nan(other.score) THEN "Greater"
    ELSE "Equal"

\* a <= b by Ord
Le(a, b) == cmp(a, b) # "Greater"

RECURSIVE SiftUp(_, _, _, _)
\* BinaryHeap::sift_up(start, pos), elt being the element of the hole at pos:
\* parents that are smaller by Ord move down, an equal parent stays
SiftUp(h, start, pos, elt) ==
    IF pos > start /\ ~Le(elt, h[pos \div 2])
    THEN SiftUp([h EXCEPT ![pos] = h[pos \div 2]], start, pos \div 2, elt)
    ELSE [h EXCEPT ![pos] = elt]

\* the child of pos the sift-down loops descend to: the right one unless the
\* left one is greater by Ord
GreaterChild(h, pos) == IF Le(h[2 * pos], h[2 * pos + 1]) THEN 2 * pos + 1 ELSE 2 * pos

RECURSIVE SiftDownToBottom(_, _, _, _)
\* BinaryHeap::sift_down_to_bottom: the hole goes down to a leaf along the
\* greater children, then the element is sifted up from there
SiftDownToBottom(h, pos, elt, end) ==
    IF 2 * pos + 1 <= end
    THEN LET child == GreaterChild(h, pos)
         IN  SiftDownToBottom([h EXCEPT ![pos] = h[child]], child, elt, end)
    ELSE IF 2 * pos = end
    THEN SiftUp([h EXCEPT ![pos] = h[2 * pos]], 1, 2 * pos, elt)
    ELSE SiftUp(h, 1, pos, elt)

RECURSIVE SiftDownRange(_, _, _, _)
\* BinaryHeap::sift_down_range(pos, end), elt being the element of the hole
SiftDownRange(h, pos, elt, end) ==
    IF 2 * pos + 1 <= end
    THEN LET child == GreaterChild(h, pos)
         IN  IF Le(h[child], elt) THEN [h EXCEPT ![pos] = elt]
             ELSE SiftDownRange([h EXCEPT ![pos] = h[child]], child, elt, end)
    ELSE IF 2 * pos = end /\ ~Le(h[2 * pos], elt)
    THEN [h EXCEPT ![pos] = h[2 * pos], ![2 * pos] = elt]
    ELSE [h EXCEPT ![pos] = elt]

\* BinaryHeap::push
HeapPush(h, x) == SiftUp(Append(h, x), 1, Len(h) + 1, x)

\* BinaryHeap::pop, the heap it leaves: the last element takes the place of the
\* greatest by Ord, which is returned
HeapPop(h) ==
    LET rest == SubSeq(h, 1, Len(h) - 1)
    IN  IF rest = <<>> THEN rest
        ELSE SiftDownToBottom(rest, 1, h[Len(h)], Len(rest))

ScanStep_KeepFirst(db, embedding_dim, query_norm, top_k, threshold, filter, st) ==
    LET vector_slice_start == (st.idx - 1) * embedding_dim
        vector_slice_end == vector_slice_start + embedding_dim
        skip == [st EXCEPT !.idx = @ + 1]
    IN  IF ~Passes(filter, db.data[st.idx]) THEN skip
        ELSE IF vector_slice_end > Len(db.matrix) THEN skip
        ELSE LET vector_to_compare ==
                     SubSeq(db.matrix, vector_slice_start + 1, vector_slice_end)
                 score == simple_dot_product(vector_to_compare, query_norm)
                 pushed == HeapPush(st.heap, [score |-> score, index |-> st.idx])
             IN  IF FGe(score, threshold)
                 THEN [idx |-> st.idx + 1,
                       heap |-> IF Len(pushed) > top_k THEN st.heap ELSE pushed]
                 ELSE skip

ScanStep_ClampSlice(db, embedding_dim, query_norm, top_k, threshold, filter, st) ==
    LET vector_slice_start == (st.idx - 1) * embedding_dim
        vector_slice_end == Min(vector_slice_start + embedding_dim, Len(db.matrix))
        skip == [st EXCEPT !.idx = @ + 1]
    IN  IF ~Passes(filter, db.data[st.idx]) THEN skip
        ELSE LET vector_to_compare ==
                     SubSeq(db.matrix, vector_slice_start + 1, vector_slice_end)
                 score == simple_dot_product(vector_to_compare, query_norm)
                 pushed == HeapPush(st.heap, [score |-> score, index |-> st.idx])
             IN  IF FGe(score, threshold)
                 THEN [idx |-> st.idx + 1,
                       heap |-> IF Len(pushed) > top_k THEN HeapPop(pushed)
                                ELSE pushed]
                 ELSE skip

\* the body of the scan loop of query for entry st.idx: an entry the filter
\* rejects, one whose slice ends past the matrix and one whose score is not
\* >= threshold are passed over; another is pushed, and the heap popped once
\* it holds more than top_k
ScanStep(db, embedding_dim, query_norm, top_k, threshold, filter, st) ==
    LET vector_slice_start == (st.idx - 1) * embedding_dim
        vector_slice_end == vector_slice_start + embedding_dim
        skip == [st EXCEPT !.idx = @ + 1]
    IN  IF ~Passes(filter, db.data[st.idx]) THEN skip
        ELSE IF vector_slice_end > Len(db.matrix) THEN skip
        ELSE LET vector_to_compare ==
                     SubSeq(db.matrix, vector_slice_start + 1, vector_slice_end)
                 score == simple_dot_product(vector_to_compare, query_norm)
                 pushed == HeapPush(st.heap, [score |-> score, index |-> st.idx])
             IN  IF FGe(score, threshold)
                 THEN [idx |-> st.idx + 1,
                       heap |-> IF Len(pushed) > top_k THEN HeapPop(pushed)
                                ELSE pushed]
                 ELSE skip

RECURSIVE QueryScan(_, _, _, _, _, _, _)
\* the scan loop of query from entry st.idx on: the heap it ends with
QueryScan(db, embedding_dim, query_norm, top_k, threshold, filter, st) ==
    IF st.idx > Len(db.data) THEN st.heap
    ELSE QueryScan(db, embedding_dim, query_norm, top_k, threshold, filter,
                   ScanStep(db, embedding_dim, query_norm, top_k, threshold,
                            filter, st))

RECURSIVE SortLoop(_, _)
\* the loop of into_sorted_vec over the first end elements: the greatest is
\* swapped to the end and the rest made a heap again
SortLoop(h, end) ==
    IF end <= 1 THEN h
    ELSE LET swapped == [h EXCEPT ![1] = h[end], ![end] = h[1]]
         IN  SortLoop(SiftDownRange(swapped, 1, swapped[1], end - 1), end - 1)

\* BinaryHeap::into_sorted_vec: the heap's elements in ascending Ord
IntoSortedVec(heap) == SortLoop(heap, Len(heap))

\* one result of query: the entry's fields, then "__metrics__" and "__id__"
\* inserted over them
ResultMap(db, si) ==
    {p \in db.data[si.index].fields : p[1] \notin {F_METRICS, F_ID}}
    \cup {<<F_METRICS, si.score>>, <<F_ID, db.data[si.index].id>>}

\* query(query, top_k, better_than, filter): the result list, as the one
\* element of a set
query(db, embedding_dim, q, top_k, better_than, filter) ==
    IF db.data = <<>> THEN {<<>>}
    ELSE LET heap == QueryScan(db, embedding_dim, normalize(q), top_k,
                               Threshold(better_than), filter,
                               [idx |-> 1, heap |-> <<>>])
             sorted_results == IntoSortedVec(heap)
         IN  {[i \in DOMAIN sorted_results |-> ResultMap(db, sorted_results[i])]}

\* --------------------------------------------------------------- AnnEngine
\* the position (from 1) of the first embedding whose length is not dimension,
\* 0 for none
FirstWrongDim(embeddings, dimension) ==
    LET S == {i \in 1..Len(embeddings) : Len(embeddings[i]) # dimension}
    IN  IF S = {} THEN 0 ELSE CHOOSE i \in S : \A j \in S : i <= j

\* the items add_items_batch builds from the first n embeddings and ids
NanoDataItems(embeddings, ids, n) ==
    [i \in 1..n |-> [id |-> ids[i], vector |-> embeddings[i], fields |-> {}]]

\* add_items_batch without the count check: zip stops at the shorter slice
add_items_batch_NoCountCheck(db, dimension, f, embeddings, ids) ==
    LET n == Min(Len(embeddings), Len(ids))
        bad == FirstWrongDim(SubSeq(embeddings, 1, n), dimension)
        u == upsert(db, NanoDataItems(embeddings, ids, n), db.embedding_dim)
    IN  IF bad # 0
        THEN [kind |-> "err", db |-> db, file |-> f,
              err |-> Err("Embedding dimension mismatch for item", ids[bad],
                          dimension, Len(embeddings[bad]))]
        ELSE IF n = 0 THEN [kind |-> "ok", db |-> db, file |-> f, err |-> NoErr]
        ELSE [kind |-> u.kind, db |-> u.db, file |-> save(u.db), err |-> NoErr]

\* add_items_batch upserting and saving the items that precede the first one
\* of the wrong dimension before it fails
add_items_batch_PartialApply(db, dimension, f, embeddings, ids) ==
    IF Len(embeddings) # Len(ids)
    THEN [kind |-> "err", db |-> db, file |-> f,
          err |-> Err("Embeddings and IDs count mismatch", "",
                      Len(embeddings), Len(ids))]
    ELSE LET bad == FirstWrongDim(embeddings, dimension)
             n == IF bad # 0 THEN bad - 1 ELSE Len(embeddings)
             u == upsert(db, NanoDataItems(embeddings, ids, n), db.embedding_dim)
         IN  [kind |-> IF bad # 0 THEN "err" ELSE "ok",
              db |-> IF n = 0 THEN db ELSE u.db,
              file |-> IF n = 0 THEN f ELSE save(u.db),
              err |-> IF bad # 0
                      THEN Err("Embedding dimension mismatch for item", ids[bad],
                               dimension, Len(embeddings[bad]))
                      ELSE NoErr]

\* add_items_batch saving before it upserts
add_items_batch_SaveFirst(db, dimension, f, embeddings, ids) ==
    IF Len(embeddings) # Len(ids)
    THEN [kind |-> "err", db |-> db, file |-> f,
          err |-> Err("Embeddings and IDs count mismatch", "",
                      Len(embeddings), Len(ids))]
    ELSE LET bad == FirstWrongDim(embeddings, dimension)
             u == upsert(db, NanoDataItems(embeddings, ids, Len(embeddings)),
                         db.embedding_dim)
         IN  IF bad # 0
             THEN [kind |-> "err", db |-> db, file |-> f,
                   err |-> Err("Embedding dimension mismatch for item", ids[bad],
                               dimension, Len(embeddings[bad]))]
             ELSE IF Len(embeddings) = 0
             THEN [kind |-> "ok", db |-> db, file |-> f, err |-> NoErr]
             ELSE [kind |-> "ok", db |-> u.db, file |-> save(db), err |-> NoErr]

\* AnnEngine::add_items_batch(embeddings, ids): the result, the store and the
\* file afterwards
add_items_batch_AlwaysInsert(db, dimension, f, embeddings, ids) ==
    IF Len(embeddings) # Len(ids)
    THEN [kind |-> "err", db |-> db, file |-> f,
          err |-> Err("Embeddings and IDs count mismatch", "",
                      Len(embeddings), Len(ids))]
    ELSE LET bad == FirstWrongDim(embeddings, dimension)
         IN  IF bad # 0
             THEN [kind |-> "err", db |-> db, file |-> f,
                   err |-> Err("Embedding dimension mismatch for item", ids[bad],
                               dimension, Len(embeddings[bad]))]
             ELSE LET nano_data_items ==
                          NanoDataItems(embeddings, ids, Len(embeddings))
                      st == UpsertInserts([matrix |-> db.matrix, data |-> db.data,
                                           updates |-> <<>>, inserts |-> <<>>,
                                           new_data_to_add |-> <<>>,
                                           panicked |-> FALSE], nano_data_items)
                      udb == [db EXCEPT !.matrix = st.matrix, !.data = st.data]
                  IN  IF nano_data_items = <<>>
                      THEN [kind |-> "ok", db |-> db, file |-> f, err |-> NoErr]
                      ELSE [kind |-> "ok", db |-> udb, file |-> save(udb),
                            err |-> NoErr]

add_items_batch(db, dimension, f, embeddings, ids) ==
    IF Len(embeddings) # Len(ids)
    THEN [kind |-> "err", db |-> db, file |-> f,
          err |-> Err("Embeddings and IDs count mismatch", "",
                      Len(embeddings), Len(ids))]
    ELSE LET bad == FirstWrongDim(embeddings, dimension)
         IN  IF bad # 0
             THEN [kind |-> "err", db |-> db, file |-> f,
                   err |-> Err("Embedding dimension mismatch for item", ids[bad],
                               dimension, Len(embeddings[bad]))]
             ELSE LET nano_data_items ==
                          NanoDataItems(embeddings, ids, Len(embeddings))
                      u == upsert(db, nano_data_items, db.embedding_dim)
                  IN  IF nano_data_items = <<>>
                      THEN [kind |-> "ok", db |-> db, file |-> f, err |-> NoErr]
                      ELSE IF u.kind = "panic"
                      THEN [kind |-> "panic", db |-> db, file |-> f, err |-> NoErr]
                      ELSE [kind |-> "ok", db |-> u.db, file |-> save(u.db),
                            err |-> NoErr]

\* the end of add_items_batch, done being what the call gives when its save()
\* succeeds: a failed save() is returned as an error, the upsert staying applied
SaveFailed(done, f, io) ==
    IF done.kind # "ok" \/ done.db.data = <<>> \/ io = "ok" THEN done
    ELSE [kind |-> "err", db |-> done.db, file |-> save_io(done.db, f, io).file,
          err |-> Err("Failed to save NanoVectorDB after batch upsert", "", 0, 0)]

add_items_batch_io_Rollback(db, dimension, f, embeddings, ids, io) ==
    IF embeddings = <<>> \/ io = "ok"
    THEN add_items_batch(db, dimension, f, embeddings, ids)
    ELSE [SaveFailed(add_items_batch(db, dimension, f, embeddings, ids), f, io)
            EXCEPT !.db = db]

\* add_items_batch under an outcome of the fs::write of its save()
add_items_batch_io(db, dimension, f, embeddings, ids, io) ==
    IF embeddings = <<>> \/ io = "ok"
    THEN add_items_batch(db, dimension, f, embeddings, ids)
    ELSE SaveFailed(add_items_batch(db, dimension, f, embeddings, ids), f, io)

\* AnnEngine::search(query_embedding, k): the ids of the results of query
search(db, dimension, query_embedding, k) ==
    IF Len(query_embedding) # dimension THEN {<<>>}
    ELSE {[i \in DOMAIN r |-> (CHOOSE p \in r[i] : p[1] = F_ID)[2]] :
            r \in query(db, db.embedding_dim, query_embedding, k, NoFloor, NoFilter)}

\* ------------------------------------------------------------------ inputs
Ids == {"a", "b"}

FieldMaps == {{}, {<<"color", "red">>}}

\* the vector (c1, c2, 0, ...) of length Dim
Vec(c1, c2) ==
    [i \in 1..Dim |-> IF i = 1 THEN c1 * Scale ELSE IF i = 2 THEN c2 * Scale ELSE 0]

\* a vector one component short of embedding_dim
ShortVec == [i \in 1..(Dim - 1) |-> Scale]

\* vectors of length embedding_dim
InputVecs == {Vec(1, 0), Vec(1, 4)}

Items == [id : Ids, vector : InputVecs, fields : FieldMaps]

Batches == UNION {[1..n -> Items] : n \in 1..MaxBatch}

\* batches of items without fields
ItemsPlain == [id : Ids, vector : InputVecs, fields : {{}}]

BatchesPlain == UNION {[1..n -> ItemsPlain] : n \in 1..MaxBatch}

\* batches of one item without fields
BatchesOne == [1..1 -> ItemsPlain]

\* batches in which a vector may have the wrong length
ItemsAnyLen == [id : Ids, vector : InputVecs \cup {ShortVec}, fields : {{}}]

BatchesAnyLen == UNION {[1..n -> ItemsAnyLen] : n \in 1..MaxBatch}

QueryVecs == {Vec(1, 0), Vec(1, 4), Vec(-1, -4), Vec(0, 0)}

\* a vector with a NaN component
NaNVec == [i \in 1..Dim |-> IF i = 1 THEN NaN ELSE 0]

\* batches of one item whose vector may be zero or too short
BatchesScan ==
    [1..1 -> [id : Ids, vector : {Vec(1, 0), Vec(1, 4), [i \in 1..Dim |-> 0], ShortVec},
              fields : {{}}]]

\* the score floors and the predicates of a query
Floors == {NoFloor, Floor(0), Floor(Scale \div 2)}

Filters == {NoFilter, Filter({"a"})}

\* the all-zero vector of length n
ZeroVec(n) == [i \in 1..n |-> 0]

\* batches of one item whose vector may be the zero vector
BatchesZero == [1..1 -> [id : Ids, vector : {Vec(1, 0), ZeroVec(Dim)}, fields : {{}}]]

AdditionalDatas == {{}, {<<"version", 1>>}}

\* the id slices given to get and to add_items_batch: any order, with repetition
IdLists == UNION {[1..n -> Ids] : n \in 0..MaxBatch}

\* the dimensions a store is constructed with
Dims == {Dim, Dim + 1}

\* the DataBase test_matrix_size_validation_on_load writes to the file: one
\* entry, a matrix of one float
corrupt_db_storage ==
    [embedding_dim |-> Dim,
     data |-> <<[id |-> "a", vector |-> Vec(1, 2), fields |-> {}]>>,
     matrix |-> <<Scale>>, additional_data |-> {}]

\* the DataBase test_embedding_dim_validation_on_load writes to the file
db_storage_2d ==
    [embedding_dim |-> Dim,
     data |-> <<[id |-> "a", vector |-> Vec(1, 2), fields |-> {}]>>,
     matrix |-> [i \in 1..Dim |-> 0], additional_data |-> {}]

WrittenDataBases == {corrupt_db_storage, db_storage_2d}

\* the embeddings given to add_items_batch, some of the wrong dimension
EmbeddingLists == UNION {[1..n -> {Vec(1, 4), ShortVec}] : n \in 0..MaxBatch}

\* query vectors, one of them of the wrong length
QueryVecsAnyLen == {Vec(1, 0), Vec(1, 4), ShortVec}

\* ----------------------------------------------------------------- actions
\* the environment variables the providers name
EnvNames == {"OPENROUTER_API_KEY", "TEST_PROVIDER_API_KEY"}

\* optimize_recipe not called: no locals, no rounds made, nothing returned.
\* Recipes are numbered: 0 is initial_cleaned_recipe, n the candidate of round n
Opt0 ==
    [pc |-> "idle", i |-> 0, max_iterations |-> 0, current_best_mse |-> 0,
     current_best_recipe |-> 0, rounds |-> <<>>, result |-> "none", returned |-> 0]

\* the argument and the result of a call, every field at its default
Arg0 ==
    [dim |-> 0, datas |-> <<>>, ids |-> {}, query |-> <<>>, top_k |-> 0,
     additional |-> {}, embeddings |-> <<>>, id_list |-> <<>>,
     better_than |-> NoFloor, filter |-> NoFilter, name |-> "", io |-> "ok"]

\* no call of upsert or delete in progress
Pending0 ==
    [db0 |-> EmptyDataBase(Dim), arg |-> Arg0, new_data_to_add |-> <<>>,
     data_item |-> [id |-> "", vector |-> <<>>, fields |-> {}],
     updates |-> <<>>, inserts |-> <<>>, new_data |-> <<>>, new_matrix |-> <<>>,
     deleted_count |-> 0]

Ret0 ==
    [kind |-> "ok", err |-> NoErr, loaded |-> FALSE, updates |-> <<>>,
     inserts |-> <<>>, count |-> 0, entries |-> <<>>, results |-> <<>>,
     found |-> <<>>, matrix_len |-> 0]

Init ==
    /\ live = TRUE
    /\ storage = EmptyDataBase(Dim)
    /\ file = NoFile
    /\ last = [op |-> "new", arg |-> [Arg0 EXCEPT !.dim = Dim], ret |-> Ret0]
    /\ environ = [n \in EnvNames |-> "unset"]
    /\ dotenv = {}
    /\ http = 0
    /\ opt = Opt0
    /\ pc = "idle"
    /\ pending = Pending0
    /\ binary_heap = <<>>
    /\ popped = <<>>

\* a store is constructed on the path (the program starts, or starts again)
New ==
    LET r == NanoVectorDB_new(Dim, file)
    IN  /\ live' = (r.kind = "ok")
        /\ storage' = r.db
        /\ last' = [op |-> "new", arg |-> [Arg0 EXCEPT !.dim = Dim],
                    ret |-> [Ret0 EXCEPT !.kind = r.kind, !.err = r.err,
                                         !.loaded = (r.kind = "ok" /\ file.exists
                                                     /\ ~file.empty)]]
        /\ UNCHANGED <<file, others>>

\* upsert(datas); a panic ends the process and its store
UpsertStep(datas) ==
    LET r == upsert(storage, datas, storage.embedding_dim)
    IN  /\ live' = (r.kind # "panic")
        /\ storage' = IF r.kind = "panic" THEN EmptyDataBase(storage.embedding_dim)
                       ELSE r.db
        /\ last' = [op |-> "upsert", arg |-> [Arg0 EXCEPT !.datas = datas],
                    ret |-> [Ret0 EXCEPT !.kind = r.kind,
                                         !.updates = r.updates,
                                         !.inserts = r.inserts]]
        /\ UNCHANGED <<file, others>>

\* upsert(datas) for a batch of B that the store has room for, were all its
\* items new
UpsertFrom(B) ==
    /\ live
    /\ \E datas \in B :
         /\ Len(storage.data) + Len(datas) <= MaxLen
         /\ UpsertStep(datas)

\* upsert(datas) for a batch of B that leaves the store within MaxLen entries:
\* a full store is still updated
UpsertWithin(B) ==
    /\ live
    /\ \E datas \in B :
         /\ Len(upsert(storage, datas, storage.embedding_dim).db.data) <= MaxLen
         /\ UpsertStep(datas)

Upsert == UpsertFrom(Batches)

UpsertPlain == UpsertFrom(BatchesPlain)

UpsertAnyLen == UpsertFrom(BatchesAnyLen)

UpsertOne == UpsertWithin(BatchesOne)

UpsertZero == UpsertWithin(BatchesZero)

UpsertScan == UpsertWithin(BatchesScan)

Delete ==
    /\ live
    /\ \E ids \in SUBSET Ids :
         LET r == delete(storage, ids)
         IN  /\ storage' = r.db
             /\ last' = [op |-> "delete", arg |-> [Arg0 EXCEPT !.ids = ids],
                         ret |-> [Ret0 EXCEPT !.count = r.deleted_count]]
    /\ UNCHANGED <<live, file, others>>

Save ==
    /\ live
    /\ file' = save(storage)
    /\ last' = [op |-> "save", arg |-> Arg0, ret |-> Ret0]
    /\ UNCHANGED <<live, storage, others>>

StoreAdditionalData ==
    /\ live
    /\ \E d \in AdditionalDatas :
         /\ storage' = [storage EXCEPT !.additional_data = d]
         /\ last' = [op |-> "store_additional_data",
                     arg |-> [Arg0 EXCEPT !.additional = d], ret |-> Ret0]
    /\ UNCHANGED <<live, file, others>>

Get ==
    /\ live
    /\ \E ids \in IdLists :
         last' = [op |-> "get", arg |-> [Arg0 EXCEPT !.id_list = ids],
                  ret |-> [Ret0 EXCEPT !.entries = get(storage, ids)]]
    /\ UNCHANGED <<live, storage, file, others>>

Query ==
    /\ live
    /\ \E q \in QueryVecs, top_k \in 0..MaxK :
         \E r \in query(storage, storage.embedding_dim, q, top_k, NoFloor, NoFilter) :
            last' = [op |-> "query", arg |-> [Arg0 EXCEPT !.query = q, !.top_k = top_k],
                     ret |-> [Ret0 EXCEPT !.results = r]]
    /\ UNCHANGED <<live, storage, file, others>>

\* query with the zero vector or another
QueryZero ==
    /\ live
    /\ \E q \in {Vec(1, 0), ZeroVec(Dim)}, top_k \in 0..MaxK :
         \E r \in query(storage, storage.embedding_dim, q, top_k, NoFloor, NoFilter) :
            last' = [op |-> "query", arg |-> [Arg0 EXCEPT !.query = q, !.top_k = top_k],
                     ret |-> [Ret0 EXCEPT !.results = r]]
    /\ UNCHANGED <<live, storage, file, others>>

\* query with a score floor and a predicate
QueryFiltered ==
    /\ live
    /\ \E q \in {Vec(1, 0), Vec(1, 4), NaNVec}, top_k \in 0..MaxK,
          better_than \in Floors, filter \in Filters :
         \E r \in query(storage, storage.embedding_dim, q, top_k, better_than, filter) :
            last' = [op |-> "query",
                     arg |-> [Arg0 EXCEPT !.query = q, !.top_k = top_k,
                                          !.better_than = better_than,
                                          !.filter = filter],
                     ret |-> [Ret0 EXCEPT !.results = r]]
    /\ UNCHANGED <<live, storage, file, others>>

\* query with a vector of any length
QueryAnyLen ==
    /\ live
    /\ \E q \in QueryVecsAnyLen, top_k \in 0..MaxK :
         \E r \in query(storage, storage.embedding_dim, q, top_k, NoFloor, NoFilter) :
            last' = [op |-> "query", arg |-> [Arg0 EXCEPT !.query = q, !.top_k = top_k],
                     ret |-> [Ret0 EXCEPT !.results = r]]
    /\ UNCHANGED <<live, storage, file, others>>

\* AnnEngine::new(Dim): the engine's store is constructed on DB_PATH
AnnNew ==
    LET r == NanoVectorDB_new(Dim, file)
    IN  /\ live' = (r.kind = "ok")
        /\ storage' = r.db
        /\ last' = [op |-> "AnnEngine::new", arg |-> [Arg0 EXCEPT !.dim = Dim],
                    ret |-> [Ret0 EXCEPT !.kind = r.kind, !.err = r.err,
                                         !.loaded = (r.kind = "ok" /\ file.exists
                                                     /\ ~file.empty)]]
        /\ UNCHANGED <<file, others>>

\* AnnEngine::add_items_batch on the engine of dimension Dim
AddItemsBatch ==
    /\ live
    /\ \E embeddings \in EmbeddingLists, ids \in IdLists :
         LET r == add_items_batch(storage, Dim, file, embeddings, ids)
         IN  /\ Len(r.db.data) <= MaxLen
             /\ live' = (r.kind # "panic")
             /\ storage' = r.db
             /\ file' = r.file
             /\ last' = [op |-> "add_items_batch",
                         arg |-> [Arg0 EXCEPT !.embeddings = embeddings,
                                              !.id_list = ids],
                         ret |-> [Ret0 EXCEPT !.kind = r.kind, !.err = r.err]]
             /\ UNCHANGED others

\* add_items_batch with embeddings of the engine's dimension, equal or not
AddItemsBatchValid ==
    /\ live
    /\ \E embeddings \in UNION {[1..n -> InputVecs] : n \in 0..MaxBatch}, ids \in IdLists :
         LET r == add_items_batch(storage, Dim, file, embeddings, ids)
         IN  /\ Len(r.db.data) <= MaxLen
             /\ live' = (r.kind # "panic")
             /\ storage' = r.db
             /\ file' = r.file
             /\ last' = [op |-> "add_items_batch",
                         arg |-> [Arg0 EXCEPT !.embeddings = embeddings,
                                              !.id_list = ids],
                         ret |-> [Ret0 EXCEPT !.kind = r.kind, !.err = r.err]]
             /\ UNCHANGED others

\* add_items_batch, the write of its save() succeeding or failing
AddItemsBatchIo ==
    /\ live
    /\ \E embeddings \in UNION {[1..n -> {Vec(1, 4)}] : n \in 0..MaxBatch},
          ids \in IdLists, io \in IoOutcomes :
         LET r == add_items_batch_io(storage, Dim, file, embeddings, ids, io)
         IN  /\ Len(r.db.data) <= MaxLen
             /\ live' = (r.kind # "panic")
             /\ storage' = r.db
             /\ file' = r.file
             /\ last' = [op |-> "add_items_batch",
                         arg |-> [Arg0 EXCEPT !.embeddings = embeddings,
                                              !.id_list = ids, !.io = io],
                         ret |-> [Ret0 EXCEPT !.kind = r.kind, !.err = r.err]]
             /\ UNCHANGED others

\* AnnEngine::item_count
ItemCount ==
    /\ live
    /\ last' = [op |-> "item_count", arg |-> Arg0,
                ret |-> [Ret0 EXCEPT !.count = len(storage)]]
    /\ UNCHANGED <<live, storage, file, others>>

\* AnnEngine::search on the engine of dimension Dim
Search ==
    /\ live
    /\ \E q \in QueryVecsAnyLen, k \in 0..MaxK :
         \E r \in search(storage, Dim, q, k) :
            last' = [op |-> "search", arg |-> [Arg0 EXCEPT !.query = q, !.top_k = k],
                     ret |-> [Ret0 EXCEPT !.found = r]]
    /\ UNCHANGED <<live, storage, file, others>>

\* NanoVectorDB::new with any of the dimensions
NewAny ==
    \E d \in Dims :
        LET r == NanoVectorDB_new(d, file)
        IN  /\ live' = (r.kind = "ok")
            /\ storage' = r.db
            /\ last' = [op |-> "new", arg |-> [Arg0 EXCEPT !.dim = d],
                        ret |-> [Ret0 EXCEPT !.kind = r.kind, !.err = r.err,
                                             !.loaded = (r.kind = "ok" /\ file.exists
                                                         /\ ~file.empty)]]
            /\ UNCHANGED <<file, others>>

\* NamedTempFile::new(): the path holds a new file of length zero
CreateTempFile ==
    /\ file' = [NoFile EXCEPT !.exists = TRUE]
    /\ last' = [op |-> "NamedTempFile::new", arg |-> Arg0, ret |-> Ret0]
    /\ UNCHANGED <<live, storage, others>>

\* fs::remove_file(path), as cleanup_db_file does
RemoveFile ==
    /\ file.exists
    /\ file' = NoFile
    /\ last' = [op |-> "remove_file", arg |-> Arg0, ret |-> Ret0]
    /\ UNCHANGED <<live, storage, others>>

\* fs::write(path, serde_json::to_string(&db)), as the load tests do
WriteDataBase ==
    /\ \E db \in WrittenDataBases : file' = save(db)
    /\ last' = [op |-> "fs::write", arg |-> Arg0, ret |-> Ret0]
    /\ UNCHANGED <<live, storage, others>>

\* the store and its file: construction, mutation, persistence
Next == New \/ Upsert \/ Delete \/ Save

Spec == Init /\ [][Next]_vars

\* the store and its file, additional_data included, the entries without fields
NextCodec == New \/ UpsertPlain \/ Delete \/ Save \/ StoreAdditionalData

SpecCodec == Init /\ [][NextCodec]_vars

\* the store in memory, upsert being given vectors of any length
NextAnyLen == New \/ UpsertAnyLen \/ Delete \/ Get

SpecAnyLen == Init /\ [][NextAnyLen]_vars

\* the store in memory and the queries on it
NextQuery == Upsert \/ UpsertOne \/ Delete \/ Get \/ Query

SpecQuery == Init /\ [][NextQuery]_vars

\* the engine, and the store it wraps queried directly
NextAnn == AnnNew \/ AddItemsBatch \/ Search \/ QueryAnyLen

SpecAnn == Init /\ [][NextAnn]_vars

\* construction on whatever the path holds: nothing, an empty file, a saved
\* store of either dimension, a file written by hand
\* ---------------------------------------------------------- api_connection
\* dotenv(): every variable the .env file defines and the environment lacks is
\* set from the file; a variable already present is left alone
dotenv_load(env, names) ==
    [n \in DOMAIN env |-> IF n \in names /\ env[n] = "unset" THEN "unicode" ELSE env[n]]

\* env::var(name) is Ok: the variable is present and valid unicode
env_var_ok(env, name) == env[name] = "unicode"

\* what the server, the network and the body give once a request is sent
Outcomes == {"success", "bad_body", "api_error", "network_error"}

call_chat_completion_RequestFirst(env, names, api_key_env_var_name, sent, outcome) ==
    LET loaded == dotenv_load(env, names)
    IN  IF ~env_var_ok(loaded, api_key_env_var_name)
        THEN [kind |-> "err", environ |-> loaded, http |-> sent + 1,
              err |-> Err("MissingApiKey", api_key_env_var_name, 0, 0)]
        ELSE [kind |-> IF outcome = "success" THEN "ok" ELSE "err",
              environ |-> loaded, http |-> sent + 1,
              err |-> CASE outcome = "success" -> NoErr
                        [] outcome = "api_error" -> Err("ApiError", "", 0, 0)
                        [] OTHER -> Err("NetworkError", "", 0, 0)]

\* Provider::call_chat_completion of Provider::OpenRouter: .env is loaded, the
\* key is read from the variable the provider names and its absence returned
\* as MissingApiKey(name); only then is the request built and sent, and the
\* response read
call_chat_completion(env, names, api_key_env_var_name, sent, outcome) ==
    LET loaded == dotenv_load(env, names)
    IN  IF ~env_var_ok(loaded, api_key_env_var_name)
        THEN [kind |-> "err", environ |-> loaded, http |-> sent,
              err |-> Err("MissingApiKey", api_key_env_var_name, 0, 0)]
        ELSE [kind |-> IF outcome = "success" THEN "ok" ELSE "err",
              environ |-> loaded, http |-> sent + 1,
              err |-> CASE outcome = "success" -> NoErr
                        [] outcome = "api_error" -> Err("ApiError", "", 0, 0)
                        [] OTHER -> Err("NetworkError", "", 0, 0)]

\* env::set_var(name, value), the value valid unicode or not, and
\* env::remove_var(name)
SetVar ==
    /\ \E n \in EnvNames, v \in {"unset", "unicode", "not_unicode"} :
         /\ environ[n] # v
         /\ environ' = [environ EXCEPT ![n] = v]
         /\ last' = [op |-> "env::set_var", arg |-> [Arg0 EXCEPT !.name = n], ret |-> Ret0]
    /\ UNCHANGED <<live, storage, file, dotenv, http, opt, pc, pending, binary_heap, popped>>

\* the .env file of the working directory is written with a definition of
\* one variable, or without it
WriteDotenv ==
    /\ \E n \in EnvNames :
         /\ dotenv' = IF n \in dotenv THEN dotenv \ {n} ELSE dotenv \cup {n}
         /\ last' = [op |-> "write .env", arg |-> [Arg0 EXCEPT !.name = n], ret |-> Ret0]
    /\ UNCHANGED <<live, storage, file, environ, http, opt, pc, pending, binary_heap, popped>>

\* Provider::openrouter(name): .env is loaded
ProviderOpenrouter ==
    /\ \E n \in EnvNames :
         /\ environ' = dotenv_load(environ, dotenv)
         /\ last' = [op |-> "Provider::openrouter", arg |-> [Arg0 EXCEPT !.name = n],
                     ret |-> Ret0]
    /\ UNCHANGED <<live, storage, file, dotenv, http, opt, pc, pending, binary_heap, popped>>

\* provider.call_chat_completion(request) of a provider that names n
CallChatCompletion ==
    /\ http < MaxRequests
    /\ \E n \in EnvNames, outcome \in Outcomes :
         LET r == call_chat_completion(environ, dotenv, n, http, outcome)
         IN  /\ environ' = r.environ
             /\ http' = r.http
             /\ last' = [op |-> "call_chat_completion", arg |-> [Arg0 EXCEPT !.name = n],
                         ret |-> [Ret0 EXCEPT !.kind = r.kind, !.err = r.err]]
    /\ UNCHANGED <<live, storage, file, dotenv, opt, pc, pending, binary_heap, popped>>

NextApi == SetVar \/ WriteDotenv \/ ProviderOpenrouter \/ CallChatCompletion

SpecApi == Init /\ [][NextApi]_vars

\* ------------------------------ upsert and delete, one write at a time
\* a store is constructed on the path, no call being in progress
NewIdle == pc = "idle" /\ New

\* save(), no call being in progress
SaveIdle == pc = "idle" /\ Save

\* upsert(datas) is called: the first loop overwrites the slices and fields
\* of the ids already stored and sets the other items aside
UpsertCall ==
    /\ live /\ pc = "idle"
    /\ \E datas \in BatchesPlain :
         LET st0 == [matrix |-> storage.matrix, data |-> storage.data,
                     updates |-> <<>>, inserts |-> <<>>, new_data_to_add |-> <<>>,
                     panicked |-> FALSE]
             st1 == UpsertUpdates(st0, datas, storage.data, storage.embedding_dim)
         IN  /\ Len(storage.data) + Len(datas) <= MaxLen
             /\ storage' = [storage EXCEPT !.matrix = st1.matrix, !.data = st1.data]
             /\ pending' = [Pending0 EXCEPT !.db0 = storage,
                                            !.arg = [Arg0 EXCEPT !.datas = datas],
                                            !.new_data_to_add = st1.new_data_to_add,
                                            !.updates = st1.updates]
    /\ pc' = "upsert_loop"
    /\ UNCHANGED <<live, file, last, environ, dotenv, http, opt, binary_heap, popped>>

\* the second loop of upsert, line 203: the matrix is extended with the
\* normalized vector of the next item set aside
UpsertExtend ==
    /\ pc = "upsert_loop"
    /\ pending.new_data_to_add # <<>>
    /\ LET data_item == Head(pending.new_data_to_add)
           norm_vec == normalize(data_item.vector)
       IN  /\ storage' = [storage EXCEPT !.matrix = @ \o norm_vec]
           /\ pending' = [pending EXCEPT
                            !.data_item = [data_item EXCEPT !.vector = norm_vec],
                            !.new_data_to_add = Tail(@)]
    /\ pc' = "upsert_push"
    /\ UNCHANGED <<live, file, last, environ, dotenv, http, opt, binary_heap, popped>>

\* lines 204-209: the entry is pushed and its id noted
UpsertPush ==
    /\ pc = "upsert_push"
    /\ storage' = [storage EXCEPT !.data = Append(@, pending.data_item)]
    /\ pending' = [pending EXCEPT !.inserts = Append(@, pending.data_item.id)]
    /\ pc' = "upsert_loop"
    /\ UNCHANGED <<live, file, last, environ, dotenv, http, opt, binary_heap, popped>>

\* line 212: upsert returns Ok((updates, inserts))
UpsertReturn ==
    /\ pc = "upsert_loop"
    /\ pending.new_data_to_add = <<>>
    /\ last' = [op |-> "upsert", arg |-> pending.arg,
                ret |-> [Ret0 EXCEPT !.updates = pending.updates,
                                     !.inserts = pending.inserts]]
    /\ pc' = "idle"
    /\ UNCHANGED <<live, storage, file, pending, environ, dotenv, http, opt,
                   binary_heap, popped>>

\* delete(ids) is called: lines 294-308 build new_data and new_matrix
DeleteCall ==
    /\ live /\ pc = "idle"
    /\ \E ids \in SUBSET Ids :
         LET r == delete(storage, ids)
         IN  pending' = [Pending0 EXCEPT !.db0 = storage,
                                        !.arg = [Arg0 EXCEPT !.ids = ids],
                                        !.new_data = r.db.data,
                                        !.new_matrix = r.db.matrix,
                                        !.deleted_count = r.deleted_count]
    /\ pc' = "delete_data"
    /\ UNCHANGED <<live, storage, file, last, environ, dotenv, http, opt,
                   binary_heap, popped>>

\* line 309: self.storage.data = new_data
DeleteData ==
    /\ pc = "delete_data"
    /\ storage' = [storage EXCEPT !.data = pending.new_data]
    /\ pc' = "delete_matrix"
    /\ UNCHANGED <<live, file, last, pending, environ, dotenv, http, opt,
                   binary_heap, popped>>

\* lines 310-312: self.storage.matrix = new_matrix, and delete returns
DeleteMatrix ==
    /\ pc = "delete_matrix"
    /\ storage' = [storage EXCEPT !.matrix = pending.new_matrix]
    /\ last' = [op |-> "delete", arg |-> pending.arg,
                ret |-> [Ret0 EXCEPT !.count = pending.deleted_count]]
    /\ pc' = "idle"
    /\ UNCHANGED <<live, file, pending, environ, dotenv, http, opt, binary_heap, popped>>

\* a reader interleaved at any point: len() and the length of the matrix
Read ==
    /\ live
    /\ last' = [op |-> "read", arg |-> Arg0,
                ret |-> [Ret0 EXCEPT !.count = len(storage),
                                     !.matrix_len = Len(storage.matrix)]]
    /\ UNCHANGED <<live, storage, file, others>>

NextWrites ==
    \/ NewIdle \/ SaveIdle \/ UpsertCall \/ UpsertExtend \/ UpsertPush \/ UpsertReturn
    \/ DeleteCall \/ DeleteData \/ DeleteMatrix \/ Read

SpecWrites == Init /\ [][NextWrites]_vars

\* ---------------------------------------------------------- optimize_recipe
\* a < b on f32: false when either is NaN
FLt(a, b) == ~is_nan(a) /\ ~is_nan(b) /\ a < b

\* the values calculate_mse is taken to give
MseValues == {Scale, 2 * Scale, 3 * Scale, NaN}

\* LlmOperationType, in snake_case
Operations == {"no_change", "replace_ingredient"}

\* the content of the first choice of an LLM response: whether it parses as an
\* LlmModificationResponse, its modifications (their operations), and whether
\* the text contains "no_change", as it does when a modification is one
Contents ==
    {c \in [parses : BOOLEAN, modifications : UNION {[1..n -> Operations] : n \in 0..2},
            contains_no_change : BOOLEAN] :
       /\ ~c.parses => (c.modifications = <<>> /\ ~c.contains_no_change)
       /\ c.modifications # <<>>
          => (c.contains_no_change <=> \E k \in DOMAIN c.modifications :
                                          c.modifications[k] = "no_change")}

\* what a round meets: how the LLM call ends, the content of the response,
\* whether the suggestion applies, whether the candidate converts to grams,
\* and the MSE of the candidate. A stage the round does not come to is "none",
\* its content the empty text, and an MSE not calculated is NaN
Rounds ==
    {r \in [llm : {"ok", "failed", "no_choices"}, content : Contents,
            apply : {"ok", "err", "none"}, convert : {"ok", "err", "none"},
            candidate_mse : MseValues] :
       LET ends == r.llm # "ok" \/ ~r.content.parses \/ r.content.modifications = <<>>
                   \/ r.content.modifications[1] = "no_change"
       IN  /\ r.llm # "ok" => (~r.content.parses /\ r.content.modifications = <<>>)
           /\ (r.apply = "none") <=> ends
           /\ (r.convert = "none") <=> (r.apply # "ok")
           /\ r.convert # "ok" => is_nan(r.candidate_mse)}

\* the mock response used when the LLM call failed
MockNoChange ==
    [parses |-> TRUE, modifications |-> <<"no_change">>, contains_no_change |-> TRUE]

\* lines 340-369: the suggestion parsed from the response text; more than one
\* modification is cut to the first, none without "no_change" in the text and
\* a text that does not parse become one no_change
llm_suggestion(content) ==
    IF ~content.parses THEN <<"no_change">>
    ELSE LET truncated == IF Len(content.modifications) > 1
                          THEN SubSeq(content.modifications, 1, 1)
                          ELSE content.modifications
         IN  IF truncated = <<>> /\ ~content.contains_no_change
             THEN <<"no_change">>
             ELSE truncated

\* lines 371-373: the test that ends the loop
EndsLoop(modifications) ==
    modifications = <<>> \/ (Len(modifications) = 1 /\ modifications[1] = "no_change")

\* what a round did, given its suggestion
Outcome(r, best_mse) ==
    IF r.llm = "no_choices" THEN "no_choices"
    ELSE IF EndsLoop(llm_suggestion(IF r.llm = "failed" THEN MockNoChange ELSE r.content))
    THEN "break"
    ELSE IF r.apply = "err" THEN "apply_failed"
    ELSE IF r.convert = "err" THEN "convert_failed"
    ELSE IF FLt(r.candidate_mse, best_mse) THEN "improved"
    ELSE "retained"

optimize_round_AcceptEqual(o, r) ==
    LET outcome == IF Outcome(r, o.current_best_mse) = "retained"
                      /\ r.candidate_mse = o.current_best_mse
                   THEN "improved" ELSE Outcome(r, o.current_best_mse)
        done == [o EXCEPT !.rounds = Append(@, [round |-> r, outcome |-> outcome,
                                                best_before |-> o.current_best_mse])]
    IN  CASE outcome = "no_choices" -> [done EXCEPT !.pc = "returned", !.result = "err"]
          [] outcome = "break" ->
               [done EXCEPT !.pc = "returned", !.result = "ok",
                            !.returned = o.current_best_recipe]
          [] outcome = "improved" ->
               [done EXCEPT !.i = @ + 1, !.current_best_recipe = o.i + 1,
                            !.current_best_mse = r.candidate_mse]
          [] OTHER -> [done EXCEPT !.i = @ + 1]

optimize_round_SkipFailedCall(o, r) ==
    LET outcome == IF r.llm = "failed" THEN "apply_failed"
                   ELSE Outcome(r, o.current_best_mse)
        done == [o EXCEPT !.rounds = Append(@, [round |-> r, outcome |-> outcome,
                                                best_before |-> o.current_best_mse])]
    IN  CASE outcome = "no_choices" -> [done EXCEPT !.pc = "returned", !.result = "err"]
          [] outcome = "break" ->
               [done EXCEPT !.pc = "returned", !.result = "ok",
                            !.returned = o.current_best_recipe]
          [] outcome = "improved" ->
               [done EXCEPT !.i = @ + 1, !.current_best_recipe = o.i + 1,
                            !.current_best_mse = r.candidate_mse]
          [] OTHER -> [done EXCEPT !.i = @ + 1]

\* the body of the loop of optimize_recipe, lines 191-437, for a round r: no
\* choices return an error; a suggestion of no change ends the loop and
\* returns the best so far; a failure to apply or convert goes on to the next
\* round; a candidate replaces the best if its MSE is lower
optimize_round(o, r) ==
    LET outcome == Outcome(r, o.current_best_mse)
        done == [o EXCEPT !.rounds = Append(@, [round |-> r, outcome |-> outcome,
                                                best_before |-> o.current_best_mse])]
    IN  CASE outcome = "no_choices" -> [done EXCEPT !.pc = "returned", !.result = "err"]
          [] outcome = "break" ->
               [done EXCEPT !.pc = "returned", !.result = "ok",
                            !.returned = o.current_best_recipe]
          [] outcome = "improved" ->
               [done EXCEPT !.i = @ + 1, !.current_best_recipe = o.i + 1,
                            !.current_best_mse = r.candidate_mse]
          [] OTHER -> [done EXCEPT !.i = @ + 1]

\* optimize_recipe is called: lines 186-188
OptimizeRecipe ==
    /\ opt.pc # "loop"
    /\ \E max_iterations \in 0..MaxIterations, initial_mse \in {2 * Scale, NaN} :
         opt' = [Opt0 EXCEPT !.pc = "loop", !.max_iterations = max_iterations,
                             !.current_best_mse = initial_mse]
    /\ UNCHANGED <<live, storage, file, last, environ, dotenv, http, pc, pending,
                   binary_heap, popped>>

\* one iteration of for i in 0..max_iterations
OptimizeRound ==
    /\ opt.pc = "loop"
    /\ opt.i < opt.max_iterations
    /\ \E r \in Rounds : opt' = optimize_round(opt, r)
    /\ UNCHANGED <<live, storage, file, last, environ, dotenv, http, pc, pending,
                   binary_heap, popped>>

\* the loop is over: line 440, Ok(current_best_recipe)
OptimizeReturn ==
    /\ opt.pc = "loop"
    /\ opt.i >= opt.max_iterations
    /\ opt' = [opt EXCEPT !.pc = "returned", !.result = "ok",
                          !.returned = opt.current_best_recipe]
    /\ UNCHANGED <<live, storage, file, last, environ, dotenv, http, pc, pending,
                   binary_heap, popped>>

NextOpt == OptimizeRecipe \/ OptimizeRound \/ OptimizeReturn

SpecOpt == Init /\ [][NextOpt]_vars

\* ------------------------------------------- a BinaryHeap of ScoredIndex
\* the scores of the ordering test, and NaN
Scores == {NaN, Scale \div 2, (9 * Scale) \div 10, Scale}

\* heap.push(ScoredIndex { score, index })
Push ==
    /\ Len(binary_heap) <= MaxK
    /\ \E score \in Scores, index \in 0..1 :
         binary_heap' = HeapPush(binary_heap, [score |-> score, index |-> index])
    /\ popped' = <<>>
    /\ last' = [op |-> "BinaryHeap::push", arg |-> Arg0, ret |-> Ret0]
    /\ UNCHANGED <<live, storage, file, environ, dotenv, http, opt, pc, pending>>

\* heap.pop(): the greatest element by Ord, the root, is returned
Pop ==
    /\ binary_heap # <<>>
    /\ popped' = <<binary_heap[1]>>
    /\ binary_heap' = HeapPop(binary_heap)
    /\ last' = [op |-> "BinaryHeap::pop", arg |-> Arg0, ret |-> Ret0]
    /\ UNCHANGED <<live, storage, file, environ, dotenv, http, opt, pc, pending>>

\* heap.into_sorted_vec(): the heap is consumed
IntoSorted ==
    /\ binary_heap # <<>>
    /\ popped' = IntoSortedVec(binary_heap)
    /\ binary_heap' = <<>>
    /\ last' = [op |-> "BinaryHeap::into_sorted_vec", arg |-> Arg0, ret |-> Ret0]
    /\ UNCHANGED <<live, storage, file, environ, dotenv, http, opt, pc, pending>>

NextHeap == Push \/ Pop \/ IntoSorted

SpecHeap == Init /\ [][NextHeap]_vars

\* the store queried with floors and predicates, its matrix possibly short
NextScan == UpsertScan \/ Delete \/ QueryFiltered

SpecScan == Init /\ [][NextScan]_vars

\* the store with zero vectors among its inputs
NextZero == New \/ UpsertZero \/ Delete \/ Save \/ QueryZero

SpecZero == Init /\ [][NextZero]_vars

\* the engine fed batches of valid embeddings, and started again
NextIdem == AnnNew \/ AddItemsBatchValid \/ ItemCount

SpecIdem == Init /\ [][NextIdem]_vars

\* the engine on a disk whose writes can fail
NextDisk == AnnNew \/ AddItemsBatchIo \/ ItemCount \/ RemoveFile

SpecDisk == Init /\ [][NextDisk]_vars

NextLoad ==
    NewAny \/ UpsertOne \/ Delete \/ Save \/ CreateTempFile \/ RemoveFile
    \/ WriteDataBase

SpecLoad == Init /\ [][NextLoad]_vars

\* ------------------------------------------------------- helpers of claims
\* the dense-contiguity condition of a DataBase
Consistent(db) == Len(db.matrix) = Len(db.data) * db.embedding_dim

\* the matrix slice of entry i (from 1)
SliceOf(db, i) == SubSeq(db.matrix, (i - 1) * Dim + 1, i * Dim)

IdsOf(data) == {data[i].id : i \in 1..Len(data)}

\* how many entries hold id
Count(data, id) == Cardinality({i \in 1..Len(data) : data[i].id = id})

\* the positions, in order, of the entries whose id is not in ids
SurvivorIdx(data, ids) ==
    LET Kept(i) == data[i].id \notin ids
    IN  SelectSeq([i \in 1..Len(data) |-> i], Kept)

\* the sub-sequence of the batch ids that satisfy a membership test
BatchIds(datas, S, inS) ==
    LET T(id) == (id \in S) = inS
    IN  SelectSeq([i \in 1..Len(datas) |-> datas[i].id], T)

\* the score and the id a query result carries
ScoreOf(result) == (CHOOSE p \in result : p[1] = F_METRICS)[2]

IdOf(result) == (CHOOSE p \in result : p[1] = F_ID)[2]

\* the score query computes for entry i
EntryScore(db, i, q) == simple_dot_product(SliceOf(db, i), normalize(q))

\* ------------------------------------------------------------------ claims

\* C1: in every state reached by new (empty or loaded), upsert with vectors of
\* length embedding_dim, delete and save, the matrix holds exactly
\* embedding_dim floats per entry: matrix.len() == data.len() * embedding_dim.
C1_DenseMatrix ==
    live => Len(storage.matrix) = Len(storage.data) * Dim

\* C2: after any sequence of upsert and delete calls with arbitrary batches,
\* no two entries of the store have the same id.
C2_UniqueIds ==
    live => \A i, j \in 1..Len(storage.data) :
                i # j => storage.data[i].id # storage.data[j].id

\* C3: re-upserting an existing id with a new vector and new fields replaces
\* both: the entry's matrix slice and the entry's own vector become the new
\* normalized vector, its fields become exactly the new fields, and len() and
\* every other entry are unchanged.
C3_UpdateReplacesBoth ==
    [][(/\ last'.op = "upsert"
        /\ Len(last'.arg.datas) = 1
        /\ Consistent(storage)
        /\ Count(storage.data, last'.arg.datas[1].id) = 1)
       => LET item == last'.arg.datas[1]
              pos == ExistingPos(storage.data, item.id)
              norm_vec == normalize(item.vector)
          IN  /\ live'
              /\ Len(storage'.data) = Len(storage.data)
              /\ Consistent(storage')
              /\ SliceOf(storage', pos) = norm_vec
              /\ storage'.data[pos].vector = norm_vec
              /\ storage'.data[pos].fields = item.fields
              /\ \A j \in (1..Len(storage.data)) \ {pos} :
                    /\ storage'.data[j] = storage.data[j]
                    /\ SliceOf(storage', j) = SliceOf(storage, j)]_vars

\* C4: delete(ids) preserves the survivors: they keep their relative order and
\* each survivor's matrix slice after the delete equals the slice it had
\* immediately before it.
C4_DeletePreservesSurvivors ==
    [][(last'.op = "delete" /\ Consistent(storage))
       => LET surv == SurvivorIdx(storage.data, last'.arg.ids)
          IN  /\ Len(storage'.data) = Len(surv)
              /\ \A k \in 1..Len(surv) :
                    /\ storage'.data[k].id = storage.data[surv[k]].id
                    /\ k * Dim <= Len(storage'.matrix)
                    /\ SliceOf(storage', k) = SliceOf(storage, surv[k])]_vars

\* C5: delete([y]) for an id y present in the store makes len() exactly 1 less
\* and returns 1; for an absent y it returns 0 and leaves the store unchanged;
\* afterwards neither get nor any query returns y.
C5_DeleteOne ==
    [][(last'.op = "delete" /\ Cardinality(last'.arg.ids) = 1)
       => LET y == CHOOSE id \in last'.arg.ids : TRUE
          IN  /\ y \in IdsOf(storage.data)
                    => /\ Len(storage'.data) = Len(storage.data) - 1
                       /\ last'.ret.count = 1
              /\ y \notin IdsOf(storage.data)
                    => /\ last'.ret.count = 0
                       /\ storage' = storage
              /\ get(storage', <<y>>) = <<>>
              /\ \A q \in QueryVecs, top_k \in 0..MaxK :
                    \A r \in query(storage', Dim, q, top_k, NoFloor, NoFilter) :
                       \A i \in DOMAIN r : IdOf(r[i]) # y]_vars

\* what C6 compares of two stores: len(), ids, order and fields, the matrix,
\* additional_data, and the ids every query returns
SameStore(s, t) ==
    /\ Len(t.data) = Len(s.data)
    /\ \A i \in 1..Len(s.data) :
          /\ t.data[i].id = s.data[i].id
          /\ t.data[i].fields = s.data[i].fields
    /\ t.matrix = s.matrix
    /\ t.additional_data = s.additional_data
    /\ \A q \in QueryVecs, top_k \in 0..MaxK :
          {[i \in DOMAIN r |-> IdOf(r[i])] : r \in query(t, Dim, q, top_k, NoFloor, NoFilter)}
          = {[i \in DOMAIN r |-> IdOf(r[i])] : r \in query(s, Dim, q, top_k, NoFloor, NoFilter)}

\* C6: round trip: save() followed by NanoVectorDB::new with the same path and
\* dimension yields a store with the same len(), ids, order, fields, matrix and
\* additional_data, on which every query returns the same ordered ids.
C6_RoundTrip ==
    [][(last.op = "save" /\ last'.op = "new")
       => (live' /\ SameStore(storage, storage'))]_vars

\* C7: in every reachable state, also directly after a load, every entry's
\* vector has length embedding_dim.
C7_VectorLength ==
    live => \A i \in 1..Len(storage.data) : Len(storage.data[i].vector) = Dim

\* C8: upsert(batch) with pairwise distinct ids returns (updated, inserted):
\* updated the batch ids that were in the store before the call, inserted those
\* that were not, each in batch order; len() grows by the number inserted, the
\* new entries are appended in batch order and existing entries keep their
\* positions.
C8_UpsertReturn ==
    [][(/\ last'.op = "upsert"
        /\ \A i, j \in 1..Len(last'.arg.datas) :
              i # j => last'.arg.datas[i].id # last'.arg.datas[j].id)
       => LET old == IdsOf(storage.data)
              updated == BatchIds(last'.arg.datas, old, TRUE)
              inserted == BatchIds(last'.arg.datas, old, FALSE)
              n == Len(storage.data)
          IN  /\ last'.ret.kind = "ok"
              /\ last'.ret.updates = updated
              /\ last'.ret.inserts = inserted
              /\ Len(storage'.data) = n + Len(inserted)
              /\ \A k \in 1..Len(inserted) : storage'.data[n + k].id = inserted[k]
              /\ \A i \in 1..n : storage'.data[i].id = storage.data[i].id]_vars

\* the first item of a batch whose vector length differs from embedding_dim
FirstBad(datas) ==
    datas[CHOOSE i \in 1..Len(datas) :
            /\ Len(datas[i].vector) # Dim
            /\ \A j \in 1..(i - 1) : Len(datas[j].vector) = Dim]

\* C9: upsert of a batch holding an item whose vector length differs from
\* embedding_dim fails with a DimensionMismatch error naming the offending id;
\* it neither panics nor stores the wrong-length vector.
C9_DimensionMismatch ==
    [][(/\ last'.op = "upsert"
        /\ \E i \in 1..Len(last'.arg.datas) : Len(last'.arg.datas[i].vector) # Dim)
       => /\ last'.ret.kind = "err"
          /\ last'.ret.err.msg = "DimensionMismatch"
          /\ last'.ret.err.id = FirstBad(last'.arg.datas).id
          /\ live'
          /\ \A i \in 1..Len(storage'.data) : Len(storage'.data[i].vector) = Dim
          /\ Consistent(storage')]_vars

\* C10: on a consistent store of M entries, query with a vector of length
\* embedding_dim, no score floor and no predicate returns exactly min(M, k)
\* results, sorted by non-increasing score, the first having the maximum score
\* over all M entries.
C10_TopK ==
    (last.op = "query" /\ Consistent(storage))
    => LET r == last.ret.results
           M == Len(storage.data)
       IN  /\ Len(r) = Min(M, last.arg.top_k)
           /\ \A i \in 1..(Len(r) - 1) : ScoreOf(r[i]) >= ScoreOf(r[i + 1])
           /\ Len(r) > 0 =>
                 \A i \in 1..M : ScoreOf(r[1]) >= EntryScore(storage, i, last.arg.query)

\* whether a vector has a component other than 0.0
NonZero(v) == \E i \in 1..Len(v) : v[i] # 0

\* C11: self-match: after upserting a non-zero vector v under id x into any
\* store state, an immediate query with v and k >= 1 returns x as the first
\* result, and its score is the maximum among all returned results.
C11_SelfMatch ==
    [][(/\ last.op = "upsert"
        /\ last.ret.kind = "ok"
        /\ Len(last.arg.datas) = 1
        /\ NonZero(last.arg.datas[1].vector)
        /\ last'.op = "query"
        /\ last'.arg.query = last.arg.datas[1].vector
        /\ last'.arg.top_k >= 1)
       => LET r == last'.ret.results
          IN  /\ Len(r) >= 1
              /\ IdOf(r[1]) = last.arg.datas[1].id
              /\ \A i \in 1..Len(r) : ScoreOf(r[1]) >= ScoreOf(r[i])]_vars

\* C12: a query whose vector length differs from embedding_dim returns an empty
\* result and does not fail the caller, so it never returns results scored on
\* a truncated vector; this holds for NanoVectorDB::query and for
\* AnnEngine::search.
C12_QueryDimMismatch ==
    [][(/\ last'.op \in {"query", "search"}
        /\ Len(last'.arg.query) # storage.embedding_dim)
       => /\ live'
          /\ last'.ret.kind = "ok"
          /\ last'.ret.results = <<>>
          /\ last'.ret.found = <<>>]_vars

\* the length of the matrix a file holds, once decoded
PersistedMatrixLen(f) == Len(base64_deserialize(f.content.matrix))

\* C13: NanoVectorDB::new(d, path) on an existing non-empty file whose persisted
\* embedding_dim is d' # d fails with an error naming d' and d, also when the
\* matrix length is wrong as well (the dimension is checked first); no store
\* is returned and the file is left unchanged.
C13_DimMismatchOnLoad ==
    [][(/\ last'.op = "new"
        /\ file.exists /\ ~file.empty
        /\ file.content.embedding_dim # last'.arg.dim)
       => /\ ~live'
          /\ last'.ret.kind = "err"
          /\ last'.ret.err.msg = "Embedding dimension mismatch"
          /\ last'.ret.err.n1 = file.content.embedding_dim
          /\ last'.ret.err.n2 = last'.arg.dim
          /\ file' = file]_vars

\* C13 witness: new has failed on the dimension of a file that is wrong in both
\* ways
C13_Witness ==
    /\ last.op = "new"
    /\ ~live
    /\ last.ret.err.msg = "Embedding dimension mismatch"
    /\ file.exists /\ ~file.empty
    /\ file.content.embedding_dim # last.arg.dim
    /\ PersistedMatrixLen(file) # Len(file.content.data) * file.content.embedding_dim

\* C14: NanoVectorDB::new on a file of matching dimension whose matrix length
\* differs from data.length * embedding_dim fails with an error naming the
\* expected and the actual length; a store is returned from a non-empty file
\* only if both checks pass.
C14_MatrixSizeOnLoad ==
    [][(last'.op = "new" /\ file.exists /\ ~file.empty)
       => LET expected == Len(file.content.data) * file.content.embedding_dim
              actual == PersistedMatrixLen(file)
          IN  /\ (file.content.embedding_dim = last'.arg.dim /\ actual # expected)
                 => /\ ~live'
                    /\ last'.ret.kind = "err"
                    /\ last'.ret.err.msg = "Matrix size mismatch"
                    /\ last'.ret.err.n1 = expected
                    /\ last'.ret.err.n2 = actual
              /\ live' => (file.content.embedding_dim = last'.arg.dim
                           /\ actual = expected)]_vars

\* C14 witness: new has failed on the matrix length of a file of its dimension
C14_Witness ==
    /\ last.op = "new"
    /\ ~live
    /\ last.ret.err.msg = "Matrix size mismatch"
    /\ last.ret.err.n1 # last.ret.err.n2
    /\ file.content.embedding_dim = last.arg.dim

\* C15: NanoVectorDB::new on a path that does not exist, or that holds a
\* zero-length file, succeeds with an empty store (len() = 0, empty matrix) of
\* the requested embedding_dim and neither creates nor writes the file.
C15_StartsEmpty ==
    [][(last'.op = "new" /\ (~file.exists \/ file.empty))
       => /\ live'
          /\ last'.ret.kind = "ok"
          /\ len(storage') = 0
          /\ storage'.matrix = <<>>
          /\ storage'.embedding_dim = last'.arg.dim
          /\ file' = file]_vars

\* C15 witness: new has succeeded on a zero-length file, after a store had
\* been saved to the path before
C15_Witness ==
    /\ last.op = "new"
    /\ live
    /\ file.exists /\ file.empty
    /\ len(storage) = 0
    /\ storage.embedding_dim = Dim + 1

\* C16: upsert and delete never change the persisted file, only save() does;
\* hence a fresh store constructed from the path holds the state at the last
\* save whatever mutations followed it (the file being the one that save
\* wrote), and is empty if save was never called.
C16_OnlySaveWrites ==
    [][/\ last'.op \in {"upsert", "delete"} => file' = file
       /\ last'.op = "save"
             => LET fresh == NanoVectorDB_new(storage.embedding_dim, file')
                IN  /\ fresh.kind = "ok"
                    /\ SameStore(storage, fresh.db)
       /\ (last'.op = "new" /\ ~file.exists)
             => (live' /\ len(storage') = 0)]_vars

\* C17: AnnEngine::add_items_batch with embeddings.len() # ids.len() returns an
\* error and leaves the in-memory store (entries, matrix, item_count) and the
\* persisted file unchanged.
C17_CountMismatch ==
    [][(/\ last'.op = "add_items_batch"
        /\ Len(last'.arg.embeddings) # Len(last'.arg.id_list))
       => /\ last'.ret.kind = "err"
          /\ live'
          /\ storage' = storage
          /\ len(storage') = len(storage)
          /\ file' = file]_vars

\* C17 witness: a batch of unequal counts, whose items would all be new and of
\* the right dimension, has been refused by an engine holding an entry
C17_Witness ==
    /\ last.op = "add_items_batch"
    /\ last.ret.kind = "err"
    /\ Len(last.arg.embeddings) = 2
    /\ Len(last.arg.id_list) = 1
    /\ \A i \in 1..2 : Len(last.arg.embeddings[i]) = Dim
    /\ last.arg.id_list[1] \notin IdsOf(storage.data)
    /\ len(storage) = 1
    /\ file.exists

\* whether every embedding of the call has the engine's dimension
AllDimsRight(arg) == \A i \in 1..Len(arg.embeddings) : Len(arg.embeddings[i]) = Dim

\* C18: every add_items_batch call whose embeddings and ids have equal length,
\* length 0 included, and correct dimensions forwards the batch to upsert and
\* then persists via save() before returning Ok: the store is the one upsert
\* leaves and the file the one save() writes from it.
C18_UpsertThenSave ==
    [][(/\ last'.op = "add_items_batch"
        /\ Len(last'.arg.embeddings) = Len(last'.arg.id_list)
        /\ AllDimsRight(last'.arg))
       => LET items == NanoDataItems(last'.arg.embeddings, last'.arg.id_list,
                                     Len(last'.arg.id_list))
              u == upsert(storage, items, storage.embedding_dim)
          IN  /\ last'.ret.kind = "ok"
              /\ storage' = u.db
              /\ file' = save(u.db)]_vars

\* C18 as amended: a call with equal lengths of at least 1 and correct
\* dimensions forwards the batch to upsert and then persists the resulting
\* store via save() before it returns Ok; a call with two empty slices returns
\* Ok without calling either, leaving the store and the file as they were.
C18_NonEmptyUpsertThenSave ==
    [][(/\ last'.op = "add_items_batch"
        /\ Len(last'.arg.embeddings) = Len(last'.arg.id_list)
        /\ AllDimsRight(last'.arg))
       => LET items == NanoDataItems(last'.arg.embeddings, last'.arg.id_list,
                                     Len(last'.arg.id_list))
              u == upsert(storage, items, storage.embedding_dim)
          IN  /\ last'.ret.kind = "ok"
              /\ items # <<>> => (storage' = u.db /\ file' = save(u.db))
              /\ items = <<>> => (storage' = storage /\ file' = file)]_vars

\* C18 witness: a batch of two new items has been added, and the file holds
\* both
C18_Witness ==
    /\ last.op = "add_items_batch"
    /\ last.ret.kind = "ok"
    /\ Len(last.arg.id_list) = 2
    /\ len(storage) = 2
    /\ file = save(storage)
    /\ Len(file.content.data) = 2

\* C19: add_items_batch validates the dimension of every embedding before it
\* applies any mutation: if an item has the wrong dimension the call fails
\* naming an offending item's id with the expected and the actual dimension, and
\* no item of the batch, not even one preceding it, reaches the store or the
\* file.
C19_ValidateBeforeMutating ==
    [][(/\ last'.op = "add_items_batch"
        /\ Len(last'.arg.embeddings) = Len(last'.arg.id_list)
        /\ ~AllDimsRight(last'.arg))
       => /\ last'.ret.kind = "err"
          /\ last'.ret.err.msg = "Embedding dimension mismatch for item"
          /\ \E i \in 1..Len(last'.arg.embeddings) :
                /\ Len(last'.arg.embeddings[i]) # Dim
                /\ last'.ret.err.id = last'.arg.id_list[i]
                /\ last'.ret.err.n1 = Dim
                /\ last'.ret.err.n2 = Len(last'.arg.embeddings[i])
          /\ live'
          /\ storage' = storage
          /\ file' = file]_vars

\* C19 witness: a batch whose second item has the wrong dimension has been
\* refused, and its first item, a new id of the right dimension, is not in the
\* store
C19_Witness ==
    /\ last.op = "add_items_batch"
    /\ last.ret.kind = "err"
    /\ Len(last.arg.embeddings) = 2
    /\ Len(last.arg.id_list) = 2
    /\ Len(last.arg.embeddings[1]) = Dim
    /\ Len(last.arg.embeddings[2]) # Dim
    /\ last.ret.err.id = last.arg.id_list[2]
    /\ last.arg.id_list[1] \notin IdsOf(storage.data)

\* C20: get(ids) returns exactly the stored entries whose id occurs in ids, each
\* once and in store order, whatever the order and the repetitions of ids;
\* requested ids that are not stored are omitted without error, and the store
\* is unchanged.
C20_Get ==
    [][last'.op = "get"
       => LET ids == last'.arg.id_list
              r == last'.ret.entries
              P == {i \in 1..Len(storage.data) :
                      \E j \in 1..Len(ids) : ids[j] = storage.data[i].id}
              Rank(i) == Cardinality({j \in P : j <= i})
          IN  /\ last'.ret.kind = "ok"
              /\ Len(r) = Cardinality(P)
              /\ \A i \in P : r[Rank(i)] = storage.data[i]
              /\ live'
              /\ storage' = storage
              /\ file' = file]_vars

\* C20 witness: get has been asked for b, then a, of a store holding a before b,
\* and has returned a before b
C20_Witness ==
    /\ last.op = "get"
    /\ last.arg.id_list = <<"b", "a">>
    /\ Len(last.ret.entries) = 2
    /\ last.ret.entries[1].id = "a"
    /\ last.ret.entries[2].id = "b"

\* C21: a zero vector is never an error. normalize of the all-zero vector of
\* length n is the all-zero vector of length n; upsert of an item with the
\* all-zero vector succeeds, its entry is counted by len() and its slice of the
\* matrix is all zero; query with the all-zero vector returns normally.
C21_ZeroVector ==
    [][/\ \A n \in 0..(Dim + 1) : normalize(ZeroVec(n)) = ZeroVec(n)
       /\ (/\ last'.op = "upsert"
           /\ last'.arg.datas[1].vector = ZeroVec(Dim))
          => LET id == last'.arg.datas[1].id
                 pos == ExistingPos(storage'.data, id)
             IN  /\ last'.ret.kind = "ok"
                 /\ live'
                 /\ pos # 0
                 /\ len(storage') = len(storage) + (IF id \in IdsOf(storage.data) THEN 0 ELSE 1)
                 /\ pos * Dim <= Len(storage'.matrix)
                 /\ SliceOf(storage', pos) = ZeroVec(Dim)
       /\ (/\ last'.op = "query"
           /\ last'.arg.query = ZeroVec(Dim))
          => /\ live'
             /\ last'.ret.kind = "ok"
             /\ storage' = storage]_vars

\* C22: call_chat_completion on a provider whose API-key environment variable
\* is not set (neither in the environment nor by the .env file the call loads)
\* returns Err(MissingApiKey(name)) carrying exactly the variable name the
\* provider was configured with, and no HTTP request is built or sent.
C22_MissingApiKey ==
    [][(/\ last'.op = "call_chat_completion"
        /\ environ[last'.arg.name] = "unset"
        /\ last'.arg.name \notin dotenv)
       => /\ last'.ret.kind = "err"
          /\ last'.ret.err.msg = "MissingApiKey"
          /\ last'.ret.err.id = last'.arg.name
          /\ http' = http]_vars

\* C22 witness: a call has returned MissingApiKey for the variable it names
\* while the other variable is set, after an earlier call did send a request
C22_Witness ==
    /\ last.op = "call_chat_completion"
    /\ last.ret.err.msg = "MissingApiKey"
    /\ last.ret.err.id = last.arg.name
    /\ environ[last.arg.name] = "unset"
    /\ \E n \in EnvNames : environ[n] = "unicode"
    /\ http = 1

RECURSIVE HeapAfter(_, _, _, _, _, _)
\* the heap of query after the first n entries have been scanned
HeapAfter(db, query_norm, top_k, threshold, filter, n) ==
    IF n = 0 THEN <<>>
    ELSE ScanStep(db, db.embedding_dim, query_norm, top_k, threshold, filter,
                  [idx |-> n,
                   heap |-> HeapAfter(db, query_norm, top_k, threshold, filter, n - 1)]).heap

\* the elements of a heap
Elems(h) == {h[i] : i \in 1..Len(h)}

\* whether entry i is a candidate of a query: the predicate accepts it, its
\* slice lies within the matrix and its score is >= the floor
Qualifies(db, i, q, better_than, filter) ==
    /\ Passes(filter, db.data[i])
    /\ i * db.embedding_dim <= Len(db.matrix)
    /\ FGe(EntryScore(db, i, q), Threshold(better_than))

\* C23: top-k selection of query. Every returned entry passes the predicate
\* and has score >= the floor (-1.0 by default); no qualifying entry that was
\* left out has a strictly higher score than a returned one; after each scan
\* step the heap holds at most k candidates, the one evicted being a
\* lowest-scoring one.
C23_TopKSelection ==
    (last.op = "query" /\ live /\ storage.data # <<>>)
    => LET q == last.arg.query
           k == last.arg.top_k
           b == last.arg.better_than
           f == last.arg.filter
           H(n) == HeapAfter(storage, normalize(q), k, Threshold(b), f, n)
           sorted == IntoSortedVec(H(Len(storage.data)))
           Q(i) == Qualifies(storage, i, q, b, f)
           Cand(i) == [score |-> EntryScore(storage, i, q), index |-> i]
       IN  /\ last.ret.results = [j \in DOMAIN sorted |-> ResultMap(storage, sorted[j])]
           /\ \A j \in DOMAIN sorted :
                 /\ Q(sorted[j].index)
                 /\ sorted[j] = Cand(sorted[j].index)
                 /\ FGe(ScoreOf(last.ret.results[j]), Threshold(b))
           /\ \A i \in 1..Len(storage.data) :
                 (Q(i) /\ Cand(i) \notin Elems(sorted))
                 => \A j \in DOMAIN sorted : ~(Cand(i).score > sorted[j].score)
           /\ \A n \in 1..Len(storage.data) :
                 LET before == Elems(H(n - 1))
                     after == Elems(H(n))
                     all == before \cup {Cand(n)}
                 IN  /\ Len(H(n)) <= k
                     /\ Len(H(n)) = Cardinality(after)
                     /\ ~Q(n) => after = before
                     /\ (Q(n) /\ Cardinality(all) <= k) => after = all
                     /\ (Q(n) /\ Cardinality(all) > k)
                        => \E e \in all :
                              /\ after = all \ {e}
                              /\ \A c \in all : e.score <= c.score

\* C23 witness: a query with k = 1, a floor and a predicate has scanned two
\* entries that both qualify with different scores, and returned the higher
C23_Witness ==
    /\ last.op = "query"
    /\ last.arg.top_k = 1
    /\ last.arg.better_than = Floor(0)
    /\ last.arg.filter = NoFilter
    /\ Len(storage.data) = 2
    /\ Consistent(storage)
    /\ \A i \in 1..2 : Qualifies(storage, i, last.arg.query, last.arg.better_than,
                                  last.arg.filter)
    /\ EntryScore(storage, 1, last.arg.query) > EntryScore(storage, 2, last.arg.query)
    /\ Len(last.ret.results) = 1
    /\ IdOf(last.ret.results[1]) = storage.data[1].id

\* C26: query never reads the matrix out of bounds. In any state, also one
\* whose matrix is shorter than data.len() * embedding_dim, an entry whose
\* slice would end past the matrix is skipped, the query returns normally and
\* every result refers to an existing entry whose slice lies within the
\* matrix; on an empty store the result is the empty list.
C26_QueryInBounds ==
    [][last'.op = "query"
       => LET r == last'.ret.results
              InBounds(i) == i * storage.embedding_dim <= Len(storage.matrix)
          IN  /\ live' /\ last'.ret.kind = "ok"
              /\ storage' = storage
              /\ storage.data = <<>> => r = <<>>
              /\ Len(r) <= Cardinality({i \in 1..Len(storage.data) : InBounds(i)})
              /\ \A j \in 1..Len(r) :
                    \E i \in 1..Len(storage.data) :
                       /\ InBounds(i)
                       /\ IdOf(r[j]) = storage.data[i].id
                       /\ ScoreOf(r[j]) = EntryScore(storage, i, last'.arg.query)]_vars

\* C26 witness: a query of a store whose matrix is too short for its second
\* entry has returned the first entry alone
C26_Witness ==
    /\ last.op = "query"
    /\ last.arg.top_k = 2
    /\ last.arg.better_than = NoFloor
    /\ last.arg.filter = NoFilter
    /\ Len(storage.data) = 2
    /\ Len(storage.matrix) = 2 * Dim - 1
    /\ Len(last.ret.results) = 1
    /\ IdOf(last.ret.results[1]) = storage.data[1].id

\* C24: NaN ordering of ScoredIndex. A NaN score ranks strictly below every
\* real score: a heap holding NaN and real scores evicts a NaN when popped,
\* and NaN is never ahead of a real score in the sorted output; comparing
\* never panics.
C24_NaNOrdering ==
    [][/\ \A a, b \in Scores :
             cmp([score |-> a, index |-> 0], [score |-> b, index |-> 1])
                \in {"Less", "Equal", "Greater"}
       /\ (/\ last'.op = "BinaryHeap::pop"
           /\ \E i \in 1..Len(binary_heap) : is_nan(binary_heap[i].score))
          => is_nan(popped'[1].score)
       /\ last'.op = "BinaryHeap::into_sorted_vec"
          => \A i, j \in 1..Len(popped') :
                (is_nan(popped'[i].score) /\ ~is_nan(popped'[j].score)) => j < i]_vars

\* C25: upsert and delete are not atomic with respect to the pair (matrix,
\* entry list), each write being a step of its own, but with calls serialized
\* the invariant matrix.len() == data.len() * embedding_dim, if it held when
\* the call was made, holds again when the call returns.
C25_RestoredOnReturn ==
    [][(pc # "idle" /\ pc' = "idle" /\ Consistent(pending.db0))
       => Consistent(storage')]_vars

\* whether the ids of a list are pairwise distinct
Distinct(ids) == \A i, j \in 1..Len(ids) : ids[i] = ids[j] => i = j

\* what add_items_batch leaves of a store: the entries (id and fields) in
\* order, the matrix and item_count
SameItems(s, t) ==
    /\ len(t) = len(s)
    /\ \A i \in 1..Len(s.data) :
          /\ t.data[i].id = s.data[i].id
          /\ t.data[i].fields = s.data[i].fields
    /\ t.matrix = s.matrix

\* C27: add_items_batch is idempotent for batches with pairwise distinct ids:
\* calling it again with the same embeddings and ids leaves the same entries in
\* the same order, the same matrix and the same item_count as calling it once,
\* also when the second call is made by a new AnnEngine that loaded the file
\* written by the first.
C27_Idempotent ==
    [][(/\ last'.op = "add_items_batch"
        /\ last'.ret.kind = "ok"
        /\ Distinct(last'.arg.id_list))
       => LET e == last'.arg.embeddings
              ids == last'.arg.id_list
              again == add_items_batch(storage', Dim, file', e, ids)
              loaded == NanoVectorDB_new(Dim, file')
              other == add_items_batch(loaded.db, Dim, file', e, ids)
          IN  /\ again.kind = "ok"
              /\ again.db = storage'
              /\ again.file = file'
              /\ e # <<>> =>
                    /\ loaded.kind = "ok"
                    /\ SameItems(loaded.db, storage')
                    /\ other.kind = "ok"
                    /\ SameItems(other.db, storage')
                    /\ other.file = file']_vars

\* C27 witness: a batch of two distinct ids has been added to an engine that
\* held one of them, and the file holds the two entries
C27_Witness ==
    /\ last.op = "add_items_batch"
    /\ last.ret.kind = "ok"
    /\ last.arg.id_list = <<"b", "a">>
    /\ last.arg.embeddings = <<Vec(1, 4), Vec(1, 0)>>
    /\ len(storage) = 2
    /\ storage.data[1].id = "a"
    /\ file = save(storage)

\* whether the call is one whose upsert is made and succeeds: as many ids as
\* embeddings, at least one, each of dimension Dim
UpsertMade(arg) ==
    /\ Len(arg.embeddings) = Len(arg.id_list)
    /\ arg.embeddings # <<>>
    /\ AllDimsRight(arg)

\* what the call's upsert leaves of the store
Upserted(db, arg) ==
    upsert(db, NanoDataItems(arg.embeddings, arg.id_list, Len(arg.embeddings)), Dim).db

\* C28: if save() fails inside add_items_batch after the upsert succeeded, the
\* call returns an error, the in-memory store keeps the whole upserted batch
\* and the file keeps its previous content.
C28_FileKeepsPrevious ==
    [][(/\ last'.op = "add_items_batch"
        /\ UpsertMade(last'.arg)
        /\ last'.arg.io # "ok")
       => /\ last'.ret.kind = "err"
          /\ storage' = Upserted(storage, last'.arg)
          /\ file' = file]_vars

\* C28, amended: if save() fails inside add_items_batch after the upsert
\* succeeded, the call returns an error and the in-memory store keeps the whole
\* upserted batch (no rollback); the file keeps its previous content if it
\* could not be opened for writing, and is otherwise left truncated, empty or
\* holding a part of the new text that does not load.
C28_NoRollback ==
    [][(/\ last'.op = "add_items_batch"
        /\ UpsertMade(last'.arg)
        /\ last'.arg.io # "ok")
       => /\ last'.ret.kind = "err"
          /\ live'
          /\ storage' = Upserted(storage, last'.arg)
          /\ \A i \in 1..Len(last'.arg.id_list) :
                last'.arg.id_list[i] \in IdsOf(storage'.data)
          /\ last'.arg.io = "open_failed" => file' = file
          /\ last'.arg.io # "open_failed"
             => /\ file'.exists
                /\ file'.empty \/ file'.torn
                /\ file' # save(storage')
                /\ LET r == NanoVectorDB_new(Dim, file')
                   IN  r.kind = "err" \/ r.db.data = <<>>]_vars

\* C28 witness: a save that failed after it had written a part of the text has
\* left an engine of two entries over a file that held one and no longer loads
C28_Witness ==
    /\ last.op = "add_items_batch"
    /\ last.arg.io = "write_failed_partial"
    /\ last.ret.kind = "err"
    /\ last.arg.id_list = <<"b">>
    /\ IdsOf(storage.data) = {"a", "b"}
    /\ file.torn
    /\ NanoVectorDB_new(Dim, file).kind = "err"

\* C29: in optimize_recipe the best-so-far error never increases.
\* current_best_mse is non-increasing over the iterations, current_best_recipe
\* is replaced only by a candidate whose MSE is strictly lower than
\* current_best_mse, and the returned recipe is the initial recipe or such a
\* strictly improving candidate; a candidate with equal or higher MSE is
\* discarded.
C29_BestNeverWorse ==
    [][(opt.pc = "loop" /\ opt'.pc # "idle")
       => LET n == Len(opt'.rounds)
              Improving(k) ==
                  /\ k \in 1..n
                  /\ opt'.rounds[k].round.apply = "ok"
                  /\ opt'.rounds[k].round.convert = "ok"
                  /\ FLt(opt'.rounds[k].round.candidate_mse, opt'.rounds[k].best_before)
          IN  /\ opt'.current_best_mse = opt.current_best_mse
                 \/ FLt(opt'.current_best_mse, opt.current_best_mse)
              /\ opt'.current_best_recipe # opt.current_best_recipe
                 => /\ opt'.current_best_recipe = n
                    /\ Improving(n)
                    /\ opt'.rounds[n].best_before = opt.current_best_mse
                    /\ opt'.current_best_mse = opt'.rounds[n].round.candidate_mse
              /\ (n > Len(opt.rounds) /\ ~Improving(n))
                 => /\ opt'.current_best_recipe = opt.current_best_recipe
                    /\ opt'.current_best_mse = opt.current_best_mse
              /\ (opt'.pc = "returned" /\ opt'.result = "ok")
                 => /\ opt'.returned = opt'.current_best_recipe
                    /\ opt'.returned = 0 \/ Improving(opt'.returned)]_vars

\* C29 witness: optimize_recipe has returned the candidate of its second
\* round, after a first candidate of equal MSE and a third of higher MSE were
\* discarded
C29_Witness ==
    /\ opt.pc = "returned"
    /\ opt.result = "ok"
    /\ Len(opt.rounds) = 3
    /\ opt.rounds[1].outcome = "retained"
    /\ opt.rounds[1].round.candidate_mse = opt.rounds[1].best_before
    /\ opt.rounds[2].outcome = "improved"
    /\ opt.rounds[3].outcome = "retained"
    /\ opt.returned = 2

\* C30: optimize_recipe makes at most max_iterations rounds. The loop ends at
\* the first round whose suggestion is no_change or empty, whose LLM call
\* failed or whose response does not parse, and the best so far is returned; a
\* failure to apply the suggestion or to convert the candidate only skips the
\* round and keeps the best so far; a response without choices returns an
\* error; after max_iterations rounds the function returns.
C30_BoundedRounds ==
    [][(opt.pc = "loop" /\ opt'.pc # "idle")
       => LET n == Len(opt'.rounds)
              r == opt'.rounds[n].round
              c == r.content
              made == n > Len(opt.rounds)
              NoChange ==
                  \/ r.llm = "failed"
                  \/ ~c.parses
                  \/ c.modifications = <<>>
                  \/ c.modifications[1] = "no_change"
          IN  /\ n <= opt'.max_iterations
              /\ opt'.i <= opt'.max_iterations
              /\ opt'.max_iterations = opt.max_iterations
              /\ made <=> opt.i < opt.max_iterations
              /\ ~made => (opt'.pc = "returned" /\ opt'.result = "ok"
                           /\ opt'.returned = opt.current_best_recipe)
              /\ made => n = opt.i + 1
              /\ (made /\ r.llm = "no_choices")
                 => (opt'.pc = "returned" /\ opt'.result = "err")
              /\ (made /\ r.llm # "no_choices" /\ NoChange)
                 => /\ opt'.pc = "returned" /\ opt'.result = "ok"
                    /\ opt'.returned = opt.current_best_recipe
              /\ (made /\ r.llm = "ok" /\ ~NoChange)
                 => /\ opt'.pc = "loop" /\ opt'.i = opt.i + 1
                    /\ (r.apply = "err" \/ r.convert = "err")
                       => /\ opt'.current_best_recipe = opt.current_best_recipe
                          /\ opt'.current_best_mse = opt.current_best_mse]_vars

\* C30 witness: a call with max_iterations = 3 has skipped a round that failed
\* to apply and one that failed to convert, and returned at the third, whose
\* LLM call failed
C30_Witness ==
    /\ opt.pc = "returned"
    /\ opt.result = "ok"
    /\ opt.max_iterations = 3
    /\ Len(opt.rounds) = 3
    /\ opt.rounds[1].outcome = "apply_failed"
    /\ opt.rounds[2].outcome = "convert_failed"
    /\ opt.rounds[3].round.llm = "failed"
    /\ opt.rounds[3].outcome = "break"
    /\ opt.returned = 0
====
